---- MODULE Spec2Model ----
(***************************************************************************)
(* A model of the document-to-dataset distillation pipeline:               *)
(*   - APIManagerSkill        (src/src/skills/api_manager.py)              *)
(*   - DataDistillerSkill     (src/src/skills/aug_qa_distill.py)           *)
(*   - WorkflowManager        (src/src/skills/workflow_manager.py)         *)
(*   - split_text_into_chunks (src/src/data_prep/distiller.py)             *)
(*   - SmartChunkerSkill      (src/src/skills/chunk_smart.py)              *)
(* Each component has its own specification (SpecPool, SpecRetry, ...);    *)
(* the variables of the other components stay at their idle values.        *)
(***************************************************************************)
EXTENDS Integers, Sequences, FiniteSets, TLC

\* ------------------------------------------------------------------------
\* Bounds of the model
\* ------------------------------------------------------------------------
\* the largest number of credentials configured for the provider
MaxApis == 2
\* the clock (in minutes) stops advancing here
MaxTime == 6
\* report_failure is not called on a credential whose counter reached this
MaxFailures == 4
\* the largest number of chunks of a document
MaxChunks == 4
\* execute is called at most this many times on the document
MaxRuns == 3

\* process_file is called at most this many times on the document
MaxCalls == 3
\* texts given to the chunkers have at most this many characters
MaxTextLen == 4
\* chunk_size ranges over 1 .. MaxChunkSize
MaxChunkSize == 5
\* overlap ranges over 0 .. MaxOverlap
MaxOverlap == 2
\* the while loops of the chunkers are followed for this many iterations
MaxSteps == 5
\* process_directory finds at most this many supported files
MaxFiles == 3
\* a DataDistiller is given, and the environment configures, at most this
\* many API keys
MaxKeys == 2
\* DataDistiller.process_file is called at most this many times
MaxDdRuns == 2
\* a scanned PDF has at most this many pages, OCR'd in batches of at most
\* MaxBatchSize pages, in at most MaxOcrRuns calls
MaxPages == 4
MaxBatchSize == 2
MaxOcrRuns == 3
\* the largest number of calls of process_file and execute on the documents
MaxCkRuns == 3
\* an LLM response holds at most this many elements
MaxElements == 2
\* this many document workers share one APIManagerSkill
MaxWorkers == 2
\* and start at most this many pool calls between them
MaxOps == 3
\* an APIKeyRotator holds at most this many keys
MaxRotKeys == 5
\* the rotator driven call by call has up to MaxDriverKeys keys and takes up
\* to MaxRotOps calls
MaxDriverKeys == 2
MaxRotOps == 5
\* a document of process_file_chunked has at most this many chunks
MaxPfcChunks == 2
\* the rotator's clock is followed up to this minute, in steps of TickMinutes
MaxRotTime == 60
TickMinutes == 30
\* the end-to-end scenario: a text of ScenarioLen characters split with
\* chunk_size = ScenarioChunkSize and overlap = ScenarioOverlap
ScenarioLen == 1200
ScenarioChunkSize == 1000
ScenarioOverlap == 100

\* ------------------------------------------------------------------------
\* Program constants
\* ------------------------------------------------------------------------
\* WorkflowManager(enable_checkpoint=True)
enable_checkpoint == TRUE
\* split_text_into_chunks looks for a delimiter this far around the cut
SearchWindow == 200
\* Characters. The module text is ASCII, so the ideographic full stop
\* (U+3002), the fullwidth exclamation mark (U+FF01) and the fullwidth
\* question mark (U+FF1F) are written with the letters o, e and q.
Letter == "a"
Space == " "
Newline == "n"
FullStop == "o"
ExclamationMark == "e"
QuestionMark == "q"
\* the characters texts are drawn from
Alphabet == {Letter, Space, Newline, FullStop}
\* Python's None, for "no credential" and for "no cooldown"
None == -1
\* APIManagerSkill(failure_threshold=3)
failure_threshold == 3
\* APIManagerSkill(cooldown_minutes=5)
cooldown_minutes == 5
\* DataDistillerSkill(qa_per_chunk=5): the pairs the deterministic LLM service
\* returns for a chunk it can distill
qa_per_chunk == 5
\* DataDistillerSkill(max_retries=3)
max_retries == 3
\* OCRParserSkill.execute: kwargs.get('start_page', 0), and no caller in the
\* repository passes another value
default_start_page == 0
\* the document workers that share the pool
Workers == 1 .. MaxWorkers
\* APIKeyRotator(api_keys, cooldown_minutes=60), as DataDistiller builds it
rotator_cooldown_minutes == 60
\* mark_error: a key with this many errors in a row is made unavailable
RotatorErrorLimit == 3
\* self.rotator of a DataDistiller built with use_rotation=False
NoRotator == [api_keys |-> 0, current_index |-> 0, key_status |-> <<>>]
\* A mutant of auto_rotate: rotation switched off
auto_rotate_off == FALSE
\* APIManagerSkill(auto_rotate=True): the default, and the value every
\* construction of the pool in the repository passes
auto_rotate == TRUE

VARIABLES
    \* ---- APIManagerSkill, for one provider
    numApis,          \* len(self.apis[provider])
    api_stats,        \* self.api_stats: index -> status record
    current_index,    \* self.current_index[provider]
    now,              \* datetime.now(), in minutes
    \* ---- history of the calls made on the pool
    lastGet,          \* the last get_available_api call: what it returned (flip
                      \* changes at every call)
    recent,           \* the get_available_api calls since the last report_failure
    \* ---- DataDistillerSkill._generate_qa_pairs
    gen_pc,           \* "idle", "attempt" (in the retry loop), "returned", "raised"
    attempt,          \* the loop variable of `for attempt in range(self.max_retries)`
    current_api,      \* self.current_api (the credential's index, or None)
    tries,            \* history: one record per attempt of the current call
    \* ---- DataDistillerSkill.execute, on one document
    numChunks,        \* len(chunks)
    kind,             \* what _generate_qa_pairs does on each chunk (a deterministic
                      \* LLM service): "pairs", "empty" or "error"
    ex_pc,            \* where execute is: "idle", "loop", "append", "save", "except",
                      \* "done", "aborted", "crashed"
    resume,           \* kwargs.get('resume', True) of the current call
    start_chunk,
    chunk_i,          \* the loop variable i of `for i in range(start_chunk, len(chunks))`
    total_qa_pairs,
    api_calls,
    failed_chunks,
    checkpoint,       \* the checkpoint file: exists, last_processed_chunk,
                      \* total_qa_pairs, last_error
    output_file,      \* the JSONL file: the chunk of each batch of pairs appended
    \* ---- history of the runs of execute
    runs,             \* calls of execute so far
    resumeAll,        \* every call so far passed resume=True
    resent,           \* chunks sent to _generate_qa_pairs while their pairs were
                      \* already in the output file
    ckptAtStart,      \* whether the current call loaded a checkpoint, and its
                      \* last_processed_chunk
    runAppended,      \* chunks whose pairs the current call appended
    finished,         \* chunks whose handling has finished in some call:
                      \* pairs appended, or the chunk counted as failed
    \* ---- WorkflowManager.process_file, on one document
    wf_pc,            \* where process_file is: "idle", "routing", "parsing",
                      \* "chunking", "resume_parsing", "resume_chunking",
                      \* "resume_rechunk", "returned", "raised", "crashed"
    wf_current_step,  \* self.current_step ("none" for None)
    wf_checkpoint,    \* the workflow checkpoint file: exists, current_step,
                      \* route_data ("none" or the recommended parser),
                      \* parse_data (present or not), error (present or not)
    wf_route_data,    \* the local route_data ("none" or the recommended parser)
    wf_result,        \* what the last call returned: success, current_step
    wf_calls,         \* calls of process_file so far
    wf_resumed,       \* the current call went through _resume_workflow
    \* ---- the text chunkers, applied to one text
    ch_pc,            \* "idle", "ready" (inputs chosen), "split_loop",
                      \* "fixed_loop", "done"
    strategy,         \* the chunker applied: "split_text_into_chunks",
                      \* "smart", "sentence", "paragraph", "fixed"
    text,             \* the input text, a sequence of characters
    chunk_size,       \* the chunk_size argument
    overlap,          \* the overlap argument
    ch_start,         \* the local start of the two while loops
    out_chunks,       \* the chunks emitted so far: text, start_pos, end_pos
    ch_steps,         \* iterations of the while loop so far
    \* ---- WorkflowManager.process_directory
    pd_pc,            \* process_directory: "idle", "loop", "done"
    total_files,      \* len(files): the supported files found in the directory
    pd_results,       \* the list results: one record per appended entry
    success_count,    \* the local success_count
    error_count,      \* the local error_count
    pd_outcomes,      \* per file, how its process_file call ended and
                      \* whether its chunks were saved
    pd_counted,       \* per file, the counter it was added to
    \* ---- DataDistiller (data_prep/distiller.py)
    dd_pc,            \* DataDistiller: "none", "new" (arguments chosen),
                      \* "constructed", "init_raised", "extract", "distill",
                      \* "zhipu", "save", "returned", "raised"
    dd_args,          \* the arguments of __init__: api_key given, number of
                      \* api_keys, use_rotation
    env_keys,         \* len(DEFAULT_API_KEYS): the keys configured in the environment
    dd_rotator,       \* self.rotator: "unset", "None", or "rotator"
    dd_api_key,       \* self.api_key is set
    dd_calls,         \* the helpers process_file called, in order
    dd_result,        \* what process_file returned: "none" or "saved_path"
    dd_runs,          \* calls of process_file so far
    \* ---- DataDistiller.process_file_chunked and its APIKeyRotator
    use_rotation,     \* DataDistiller.use_rotation
    rotator,          \* the APIKeyRotator: api_keys (their number), current_index, key_status
    rot_now,          \* datetime.now(), in minutes
    pfc_pc,           \* where process_file_chunked stands
    pfc_chunks,       \* len(chunks) of the document
    pfc_i,            \* the chunk of the loop, from 1
    all_distilled_data,\* the chunks whose pairs are held in the list, in order
    pfc_output,       \* the chunks whose pairs are in the output file, in order
    pfc_calls,        \* history: the LLM calls of this document, in order
    \* ---- document workers in threads, sharing one APIManagerSkill
    w_pc,             \* worker -> where its pool call stands
    w_start,          \* worker -> start_index, as get_available_api read it
    w_api,            \* worker -> the api_id of its report_failure call
    w_read,           \* worker -> consecutive_failures, as report_failure read it
    w_ret,            \* history: worker -> what its last get_available_api returned
    ops,              \* history: the pool calls started
    gets_done,        \* history: the get_available_api calls that returned a credential
    failures_done,    \* history: credential -> the report_failure calls completed on it
    success_called,   \* history: the credentials report_success was called on
    \* ---- DataDistillerSkill._parse_response and _append_to_jsonl on one response
    pr_pc,            \* where the handling of one LLM response stands
    response,         \* the response text: its shape and the elements of its JSON array
    valid_pairs,      \* what _parse_response returned
    written_lines,    \* the lines _append_to_jsonl wrote for this response
    \* ---- OCRParserSkill._process_pdf
    ocr_pc,           \* where _process_pdf stands
    total_pages,      \* len(doc)
    batch_size,       \* self.batch_size
    ocr_checkpoint,   \* the <stem>_ocr_checkpoint.json file
    start_page,       \* start_page, after the checkpoint was looked at
    batch_start,      \* batch_start of the loop
    all_content,      \* the pages whose text is in all_content, in order
    ocr_content,      \* the pages whose text is in the content returned, in order
    ocr_runs,         \* history: the calls of _process_pdf
    ocr_loaded,       \* history: the checkpoint this call loaded (last_processed_page), if any
    ocr_pages,        \* history: the pages this call has sent to the OCR engine
    \* ---- the checkpoint directory shared by the documents
    ck_files,         \* the checkpoint directory: for each checkpoint file name the source path its content records, NoPath when the file does not exist
    ck_pc,            \* "idle", or what runs: "workflow" (process_file, fresh), "resumed" (_resume_workflow), "distill" (DataDistillerSkill.execute)
    ck_path,          \* the source document of the running call
    ck_loaded,        \* history: [by, of] for every checkpoint loaded, by the document processed, of the document recorded in it
    ck_overwritten,   \* history: [by, of] for every existing checkpoint file written over
    ck_runs,          \* the calls made so far
    \* ---- APIKeyRotator driven call by call
    rot_ops,          \* the calls made on the rotator so far
    rot_disabled_at,  \* history: for each key the minute it was made unavailable, None while it is available
    rot_restored,     \* history: [key, disabled_at, at] for every key made available again
    rot_rotated_at    \* history: the minute of the last _rotate_to_next_available, None before the first

poolVars == <<numApis, api_stats, current_index, now>>
poolHist == <<lastGet, recent>>
genVars == <<gen_pc, attempt, current_api, tries>>
distVars == <<numChunks, kind, ex_pc, resume, start_chunk, chunk_i, total_qa_pairs,
              api_calls, failed_chunks, checkpoint, output_file>>
distHist == <<runs, resumeAll, resent, ckptAtStart, runAppended, finished>>
wfVars == <<wf_pc, wf_current_step, wf_checkpoint, wf_route_data, wf_result,
            wf_calls, wf_resumed>>
chunkVars == <<ch_pc, strategy, text, chunk_size, overlap, ch_start, out_chunks,
               ch_steps>>
dirVars == <<pd_pc, total_files, pd_results, success_count, error_count,
             pd_outcomes, pd_counted>>
ddVars == <<dd_pc, dd_args, env_keys, dd_rotator, dd_api_key, dd_calls, dd_result, dd_runs>>
pfcVars == <<use_rotation, rotator, rot_now, pfc_pc, pfc_chunks, pfc_i, all_distilled_data, pfc_output, pfc_calls>>
concVars == <<w_pc, w_start, w_api, w_read, w_ret, ops, gets_done, failures_done, success_called>>
parseVars == <<pr_pc, response, valid_pairs, written_lines>>
ocrVars == <<ocr_pc, total_pages, batch_size, ocr_checkpoint, start_page, batch_start, all_content, ocr_content, ocr_runs, ocr_loaded, ocr_pages>>
ckVars == <<ck_files, ck_pc, ck_path, ck_loaded, ck_overwritten, ck_runs>>
rotVars == <<rot_ops, rot_disabled_at, rot_restored, rot_rotated_at>>
vars == <<poolVars, poolHist, genVars, distVars, distHist, wfVars, chunkVars, dirVars, ddVars, pfcVars, concVars, parseVars, ocrVars, ckVars, rotVars>>
\* what the actions of one component leave alone
notPool == <<genVars, distVars, distHist, wfVars, chunkVars, dirVars, ddVars, pfcVars, concVars, parseVars, ocrVars, ckVars, rotVars>>
notGen == <<distVars, distHist, wfVars, chunkVars, dirVars, ddVars, pfcVars, concVars, parseVars, ocrVars, ckVars, rotVars>>
notDist == <<poolVars, poolHist, genVars, wfVars, chunkVars, dirVars, ddVars, pfcVars, concVars, parseVars, ocrVars, ckVars, rotVars>>
notWf == <<poolVars, poolHist, genVars, distVars, distHist, chunkVars, dirVars, ddVars, pfcVars, concVars, parseVars, ocrVars, ckVars, rotVars>>
notChunk == <<poolVars, poolHist, genVars, distVars, distHist, wfVars, dirVars, ddVars, pfcVars, concVars, parseVars, ocrVars, ckVars, rotVars>>
notDir == <<poolVars, poolHist, genVars, distVars, distHist, wfVars, chunkVars, ddVars, pfcVars, concVars, parseVars, ocrVars, ckVars, rotVars>>
notDd == <<poolVars, poolHist, genVars, distVars, distHist, wfVars, chunkVars, dirVars, pfcVars, concVars, parseVars, ocrVars, ckVars, rotVars>>
notPfc == <<poolVars, poolHist, genVars, distVars, distHist, wfVars, chunkVars, dirVars, ddVars, concVars, parseVars, ocrVars, ckVars, rotVars>>
notConc == <<poolVars, poolHist, genVars, distVars, distHist, wfVars, chunkVars, dirVars, ddVars, pfcVars, parseVars, ocrVars, ckVars, rotVars>>
notPoolConc == <<genVars, distVars, distHist, wfVars, chunkVars, dirVars, ddVars, pfcVars, parseVars, ocrVars, ckVars, rotVars>>
notParse == <<poolVars, poolHist, genVars, distVars, distHist, wfVars, chunkVars, dirVars, ddVars, pfcVars, concVars, ocrVars, ckVars, rotVars>>
notOcr == <<poolVars, poolHist, genVars, distVars, distHist, wfVars, chunkVars, dirVars, ddVars, pfcVars, concVars, parseVars, ckVars, rotVars>>
notCk == <<poolVars, poolHist, genVars, distVars, distHist, wfVars, chunkVars, dirVars, ddVars, pfcVars, concVars, parseVars, ocrVars, rotVars>>
notPfcRot == <<poolVars, poolHist, genVars, distVars, distHist, wfVars, chunkVars, dirVars, ddVars, concVars, parseVars, ocrVars, ckVars>>
notRot == <<poolVars, poolHist, genVars, distVars, distHist, wfVars, chunkVars, dirVars, ddVars, pfcVars, concVars, parseVars, ocrVars, ckVars>>

\* ------------------------------------------------------------------------
\* APIManagerSkill
\* ------------------------------------------------------------------------
Apis == 0 .. (numApis - 1)

\* _add_api: the status record of a freshly added credential
NewStats == [consecutive_failures |-> 0, cooldown_until |-> None, is_active |-> TRUE]

\* _is_api_available, its return value at time t
IsApiAvailable(stats, c, t) ==
    IF ~stats[c].is_active THEN FALSE
    ELSE IF stats[c].cooldown_until # None
         THEN IF t < stats[c].cooldown_until THEN FALSE ELSE TRUE
         ELSE TRUE

\* _is_api_available, its effect on the status of c: an expired cooldown is
\* cleared and the failure counter reset
AfterAvailabilityCheck(stats, c, t) ==
    IF stats[c].is_active /\ stats[c].cooldown_until # None
                          /\ ~(t < stats[c].cooldown_until)
    THEN [stats EXCEPT ![c].cooldown_until = None, ![c].consecutive_failures = 0]
    ELSE stats

\* A mutant of ScanLength: the loop stops one credential short of the ring
ScanLengthShort(n) == n - 1
\* get_available_api: `for i in range(len(apis))`
ScanLength(n) == n

\* get_available_api: the loop from its i-th iteration on; the index of the
\* first available credential in ring order from start, or None
RECURSIVE FirstAvailable(_, _, _, _, _)
FirstAvailable(stats, n, start, i, t) ==
    IF i >= ScanLength(n) THEN None
    ELSE LET index == (start + i) % n IN
         IF IsApiAvailable(stats, index, t) THEN index
         ELSE FirstAvailable(stats, n, start, i + 1, t)

\* get_available_api: the credential it returns (None when the provider has
\* no credential or none is available)
SelectApi(stats, n, start, t) ==
    IF n = 0 THEN None ELSE FirstAvailable(stats, n, start, 0, t)

\* get_available_api: the status table after the call
StatsAfterGet(stats, n, start, t) ==
    LET index == SelectApi(stats, n, start, t) IN
    IF index = None THEN stats ELSE AfterAvailabilityCheck(stats, index, t)

\* get_available_api: self.current_index[provider] after the call
IndexAfterGet(stats, n, start, t) ==
    LET index == SelectApi(stats, n, start, t) IN
    IF index # None /\ auto_rotate THEN (index + 1) % n ELSE start

\* A mutant of StatsAfterSuccess: a success also lifts the cooldown
StatsAfterSuccessLiftsCooldown(stats, n, c) ==
    IF c \notin 0 .. (n - 1) THEN stats
    ELSE [stats EXCEPT ![c].consecutive_failures = 0, ![c].cooldown_until = None]
\* report_success
StatsAfterSuccess(stats, n, c) ==
    IF c \notin 0 .. (n - 1) THEN stats
    ELSE [stats EXCEPT ![c].consecutive_failures = 0]

\* report_failure
StatsAfterFailure(stats, n, c, t) ==
    IF c \notin 0 .. (n - 1) THEN stats
    ELSE LET failures == stats[c].consecutive_failures + 1 IN
         IF failures >= failure_threshold
         THEN [stats EXCEPT ![c].consecutive_failures = failures,
                            ![c].cooldown_until = t + cooldown_minutes]
         ELSE [stats EXCEPT ![c].consecutive_failures = failures]

\* The credentials get_available_api may return at time t
AvailableSet(stats, n, t) == {c \in 0 .. (n - 1) : IsApiAvailable(stats, c, t)}

\* ---- the pool driven by an arbitrary caller ----------------------------
\* APIManagerSkill.__init__: n credentials loaded for the provider
PoolStart(n) ==
    /\ numApis = n
    /\ api_stats = [c \in 0 .. (n - 1) |-> NewStats]
    /\ current_index = 0
    /\ now = 0
    /\ lastGet = [ret |-> None, flip |-> FALSE, wasCooling |-> FALSE]
    /\ recent = <<>>

\* DataDistillerSkill.__init__: no credential chosen yet
GenIdle ==
    /\ gen_pc = "idle"
    /\ attempt = 0
    /\ current_api = None
    /\ tries = <<>>

\* The checkpoint file does not exist
NoCheckpoint ==
    [exists |-> FALSE, last_processed_chunk |-> 0, total_qa_pairs |-> 0,
     last_error |-> FALSE]

\* execute has not been called on a document of n chunks
DistStart(n, k) ==
    /\ numChunks = n
    /\ kind = k
    /\ ex_pc = "idle"
    /\ resume = TRUE
    /\ start_chunk = 0
    /\ chunk_i = 0
    /\ total_qa_pairs = 0
    /\ api_calls = 0
    /\ failed_chunks = 0
    /\ checkpoint = NoCheckpoint
    /\ output_file = <<>>
    /\ runs = 0
    /\ resumeAll = TRUE
    /\ resent = {}
    /\ ckptAtStart = [loaded |-> FALSE, last |-> 0]
    /\ runAppended = {}
    /\ finished = {}

DistIdle == DistStart(0, <<>>)

\* The workflow checkpoint file does not exist
NoWorkflowCheckpoint ==
    [exists |-> FALSE, current_step |-> "none", route_data |-> "none",
     parse_data |-> FALSE, error |-> FALSE]

\* WorkflowManager.__init__
WfIdle ==
    /\ wf_pc = "idle"
    /\ wf_current_step = "none"
    /\ wf_checkpoint = NoWorkflowCheckpoint
    /\ wf_route_data = "none"
    /\ wf_result = [success |-> FALSE, current_step |-> "none"]
    /\ wf_calls = 0
    /\ wf_resumed = FALSE

\* no text is being chunked
ChunkIdle ==
    /\ ch_pc = "idle"
    /\ strategy = "none"
    /\ text = <<>>
    /\ chunk_size = 1
    /\ overlap = 0
    /\ ch_start = 0
    /\ out_chunks = <<>>
    /\ ch_steps = 0

\* process_directory has not been called
DirIdle ==
    /\ pd_pc = "idle"
    /\ total_files = 0
    /\ pd_results = <<>>
    /\ success_count = 0
    /\ error_count = 0
    /\ pd_outcomes = <<>>
    /\ pd_counted = <<>>

\* no DataDistiller is made
DdIdle ==
    /\ dd_pc = "none"
    /\ dd_args = [api_key |-> FALSE, api_keys |-> 0, use_rotation |-> TRUE]
    /\ env_keys = 0
    /\ dd_rotator = "unset"
    /\ dd_api_key = FALSE
    /\ dd_calls = <<>>
    /\ dd_result = "none"
    /\ dd_runs = 0

\* No chunked distillation in this specification
PfcIdle ==
    /\ use_rotation = FALSE
    /\ rotator = NoRotator
    /\ rot_now = 0
    /\ pfc_pc = "none"
    /\ pfc_chunks = 0
    /\ pfc_i = 0
    /\ all_distilled_data = <<>>
    /\ pfc_output = <<>>
    /\ pfc_calls = <<>>

\* No worker is inside a call of the pool
ConcIdle ==
    /\ w_pc = [w \in Workers |-> "idle"]
    /\ w_start = [w \in Workers |-> 0]
    /\ w_api = [w \in Workers |-> None]
    /\ w_read = [w \in Workers |-> 0]
    /\ w_ret = [w \in Workers |-> None]
    /\ ops = 0
    /\ gets_done = 0
    /\ failures_done = [c \in 0 .. MaxApis - 1 |-> 0]
    /\ success_called = {}

\* No response is being parsed
ParseIdle ==
    /\ pr_pc = "none"
    /\ response = [shape |-> "no_array", elements |-> <<>>]
    /\ valid_pairs = <<>>
    /\ written_lines = <<>>

\* the OCR checkpoint file does not exist
NoOcrCheckpoint == [exists |-> FALSE, last_processed_page |-> 0, error |-> FALSE]

\* No PDF is being OCR'd
OcrIdle ==
    /\ ocr_pc = "none"
    /\ total_pages = 0
    /\ batch_size = 1
    /\ ocr_checkpoint = NoOcrCheckpoint
    /\ start_page = 0
    /\ batch_start = 0
    /\ all_content = <<>>
    /\ ocr_content = <<>>
    /\ ocr_runs = 0
    /\ ocr_loaded = [loaded |-> FALSE, last |-> 0]
    /\ ocr_pages = {}

\* the checkpoint directory is not exercised
CkIdle ==
    /\ ck_files = [n \in {} |-> 0]
    /\ ck_pc = "idle"
    /\ ck_path = 0
    /\ ck_loaded = {}
    /\ ck_overwritten = {}
    /\ ck_runs = 0

\* the rotator is not driven directly
RotIdle ==
    /\ rot_ops = 0
    /\ rot_disabled_at = <<>>
    /\ rot_restored = {}
    /\ rot_rotated_at = None

InitPool ==
    /\ RotIdle
    /\ CkIdle
    /\ OcrIdle
    /\ ParseIdle
    /\ ConcIdle
    /\ PfcIdle
    /\ DdIdle
    /\ DirIdle
    /\ \E n \in 0 .. MaxApis : PoolStart(n)
    /\ GenIdle
    /\ DistIdle
    /\ WfIdle
    /\ ChunkIdle

\* get_available_api(provider)
GetAvailableApi ==
    LET index == SelectApi(api_stats, numApis, current_index, now)
        avail == AvailableSet(api_stats, numApis, now) IN
    /\ api_stats' = StatsAfterGet(api_stats, numApis, current_index, now)
    /\ current_index' = IndexAfterGet(api_stats, numApis, current_index, now)
    /\ lastGet' = [ret |-> index, flip |-> ~lastGet.flip,
                   wasCooling |-> IF index = None THEN FALSE
                                  ELSE api_stats[index].cooldown_until # None]
    /\ recent' = LET entry == [api |-> index, allAvail |-> (avail = Apis)]
                     all == Append(recent, entry) IN
                 IF Len(all) > numApis THEN Tail(all) ELSE all
    /\ UNCHANGED <<numApis, now, notPool>>

\* report_success(api_id)
ReportSuccess(c) ==
    /\ api_stats' = StatsAfterSuccess(api_stats, numApis, c)
    /\ UNCHANGED <<numApis, current_index, now, lastGet, recent, notPool>>

\* report_failure(api_id, error)
ReportFailure(c) ==
    /\ c \in Apis => api_stats[c].consecutive_failures < MaxFailures
    /\ api_stats' = StatsAfterFailure(api_stats, numApis, c, now)
    /\ recent' = <<>>
    /\ UNCHANGED <<numApis, current_index, now, lastGet, notPool>>

\* time passes
Tick ==
    /\ now < MaxTime
    /\ now' = now + 1
    /\ UNCHANGED <<numApis, api_stats, current_index, lastGet, recent, notPool>>

NextPool ==
    \/ GetAvailableApi
    \/ \E c \in 0 .. MaxApis : ReportSuccess(c)
    \/ \E c \in 0 .. MaxApis : ReportFailure(c)
    \/ Tick

SpecPool == InitPool /\ [][NextPool]_vars

\* ------------------------------------------------------------------------
\* DataDistillerSkill._generate_qa_pairs, with _get_api_client
\* ------------------------------------------------------------------------
\* What one LLM call and the parse of its response can do: "pairs" (a
\* non-empty list), "empty" (the response is a JSON array without a valid
\* pair: _parse_response returns []), "unparsable" (the response holds no
\* JSON array, or json.loads rejects it: _parse_response catches the
\* JSONDecodeError and returns [] as well), "error" (the call or the parse
\* raises)
LlmOutcomes == {"pairs", "empty", "unparsable", "error"}

\* A mutant of RetryAllowed: the loop gives up one attempt early
RetryAllowedOffByOne(a) == a < max_retries - 2
\* _generate_qa_pairs: `if attempt < self.max_retries - 1` (retry) else raise
RetryAllowed(a) == a < max_retries - 1

\* _generate_qa_pairs is called (for the next chunk): self.current_api and the
\* pool are as the previous call left them
StartGenerate ==
    /\ gen_pc \in {"idle", "returned", "raised"}
    /\ gen_pc' = IF max_retries > 0 THEN "attempt" ELSE "returned"
    /\ attempt' = 0
    /\ tries' = <<>>
    /\ UNCHANGED <<numApis, api_stats, current_index, now, poolHist, current_api, notGen>>

\* One iteration of the retry loop: _get_api_client, the LLM call and the
\* parse, report_success and return, or the except branch (report_failure on
\* self.current_api, then retry or raise)
Attempt(outcome) ==
    /\ gen_pc = "attempt"
    /\ LET api == SelectApi(api_stats, numApis, current_index, now)
           stats1 == StatsAfterGet(api_stats, numApis, current_index, now)
           \* _get_api_client raises RuntimeError when api is None, before
           \* it touches self.current_api
           cur == IF api = None THEN current_api ELSE api
           ok == api # None /\ outcome # "error"
           reported == IF ok THEN None ELSE cur
           entry == [api |-> api, ok |-> ok, out |-> outcome, reported |-> reported,
                     avail |-> Cardinality(AvailableSet(api_stats, numApis, now))]
       IN
       /\ api = None => outcome = "error"
       /\ (~ok /\ cur \in Apis) => stats1[cur].consecutive_failures < MaxFailures
       /\ current_index' = IndexAfterGet(api_stats, numApis, current_index, now)
       /\ tries' = Append(tries, entry)
       /\ IF ok
          THEN /\ api_stats' = StatsAfterSuccess(stats1, numApis, api)
               /\ current_api' = cur
               /\ gen_pc' = "returned"
               /\ attempt' = attempt
          ELSE /\ api_stats' = IF cur # None
                               THEN StatsAfterFailure(stats1, numApis, cur, now)
                               ELSE stats1
               /\ IF RetryAllowed(attempt)
                  THEN /\ current_api' = None
                       /\ attempt' = attempt + 1
                       \* the loop ends without a return: `return []`
                       /\ gen_pc' = IF attempt + 1 < max_retries
                                    THEN "attempt" ELSE "returned"
                  ELSE /\ current_api' = cur
                       /\ attempt' = attempt
                       /\ gen_pc' = "raised"
    /\ UNCHANGED <<numApis, now, poolHist, notGen>>

InitRetry == InitPool

NextRetry ==
    \/ StartGenerate
    \/ \E outcome \in LlmOutcomes : Attempt(outcome)
    \/ Tick

SpecRetry == InitRetry /\ [][NextRetry]_vars

\* ------------------------------------------------------------------------
\* DataDistillerSkill.execute, with process crashes and restarts
\* ------------------------------------------------------------------------
\* What a call of _generate_qa_pairs on a chunk ends in: "pairs" (a non-empty
\* list), "empty" (an empty list: the response held no valid pair), "error"
\* (it raised, its retries exhausted; see Attempt)
GenOutcomes == {"pairs", "empty", "error"}

Chunks == 0 .. (numChunks - 1)

\* The chunks whose pairs are in the output file
Appended == {output_file[k] : k \in 1 .. Len(output_file)}

\* execute: start_chunk, from resume and the checkpoint file
StartChunk(r, ckpt) ==
    IF r /\ ckpt.exists THEN ckpt.last_processed_chunk + 1 ELSE 0

\* A mutant of LastProcessedOnError: the checkpoint names the chunk after
\* the one that failed
LastProcessedOnErrorAhead(i) == i + 1
\* execute, the except branch: 'last_processed_chunk': i - 1
LastProcessedOnError(i) == i - 1

\* A mutant of AbortThresholdExceeded: the threshold is 20%
AbortThresholdExceededFifth(failed, n) == 10 * failed > 2 * n
\* execute: `failed_chunks > len(chunks) * 0.3`
AbortThresholdExceeded(failed, n) == 10 * failed > 3 * n

\* execute is called (for the first time, after a crash, or after an abort)
Execute(r) ==
    /\ ex_pc \in {"idle", "crashed", "aborted"}
    /\ runs < MaxRuns
    /\ resume' = r
    /\ start_chunk' = StartChunk(r, checkpoint)
    /\ chunk_i' = StartChunk(r, checkpoint)
    /\ total_qa_pairs' = 0
    /\ api_calls' = 0
    /\ failed_chunks' = 0
    /\ ex_pc' = "loop"
    /\ runs' = runs + 1
    /\ resumeAll' = (resumeAll /\ r)
    /\ ckptAtStart' = [loaded |-> r /\ checkpoint.exists,
                       last |-> IF r /\ checkpoint.exists
                                THEN checkpoint.last_processed_chunk ELSE 0]
    /\ runAppended' = {}
    /\ UNCHANGED <<numChunks, kind, checkpoint, output_file, resent, finished,
                   notDist>>

\* the loop body up to the result of `await self._generate_qa_pairs(chunk, ...)`
GenerateQaPairs ==
    /\ ex_pc = "loop"
    /\ chunk_i < numChunks
    /\ resent' = IF chunk_i \in Appended THEN resent \cup {chunk_i} ELSE resent
    /\ finished' = IF kind[chunk_i] = "empty" THEN finished \cup {chunk_i}
                   ELSE finished
    /\ CASE kind[chunk_i] = "pairs" ->
              /\ api_calls' = api_calls + 1
              /\ ex_pc' = "append"
              /\ UNCHANGED failed_chunks
         [] kind[chunk_i] = "empty" ->
              /\ api_calls' = api_calls + 1
              /\ failed_chunks' = failed_chunks + 1
              /\ ex_pc' = "save"
         [] kind[chunk_i] = "error" ->
              /\ ex_pc' = "except"
              /\ UNCHANGED <<api_calls, failed_chunks>>
    /\ UNCHANGED <<numChunks, kind, resume, start_chunk, chunk_i, total_qa_pairs,
                   checkpoint, output_file, runs, resumeAll, ckptAtStart,
                   runAppended, notDist>>

\* self._append_to_jsonl(qa_pairs); total_qa_pairs += len(qa_pairs)
AppendToJsonl ==
    /\ ex_pc = "append"
    /\ output_file' = Append(output_file, chunk_i)
    /\ total_qa_pairs' = total_qa_pairs + qa_per_chunk
    /\ runAppended' = runAppended \cup {chunk_i}
    /\ finished' = finished \cup {chunk_i}
    /\ ex_pc' = "save"
    /\ UNCHANGED <<numChunks, kind, resume, start_chunk, chunk_i, api_calls,
                   failed_chunks, checkpoint, runs, resumeAll, resent, ckptAtStart,
                   notDist>>

\* self._save_checkpoint(..., 'last_processed_chunk': i, ...), end of the try block
SaveCheckpoint ==
    /\ ex_pc = "save"
    /\ checkpoint' = [exists |-> TRUE, last_processed_chunk |-> chunk_i,
                      total_qa_pairs |-> total_qa_pairs, last_error |-> FALSE]
    /\ chunk_i' = chunk_i + 1
    /\ ex_pc' = "loop"
    /\ UNCHANGED <<numChunks, kind, resume, start_chunk, total_qa_pairs, api_calls,
                   failed_chunks, output_file, distHist, notDist>>

\* the except branch: count the failure, save the checkpoint with
\* last_processed_chunk = i - 1, raise when too many chunks failed
HandleException ==
    /\ ex_pc = "except"
    /\ failed_chunks' = failed_chunks + 1
    /\ checkpoint' = [exists |-> TRUE,
                      last_processed_chunk |-> LastProcessedOnError(chunk_i),
                      total_qa_pairs |-> total_qa_pairs, last_error |-> TRUE]
    /\ IF AbortThresholdExceeded(failed_chunks + 1, numChunks)
       THEN ex_pc' = "aborted" /\ chunk_i' = chunk_i
       ELSE ex_pc' = "loop" /\ chunk_i' = chunk_i + 1
    /\ finished' = finished \cup {chunk_i}
    /\ UNCHANGED <<numChunks, kind, resume, start_chunk, total_qa_pairs, api_calls,
                   output_file, runs, resumeAll, resent, ckptAtStart, runAppended,
                   notDist>>

\* after the loop: the checkpoint file is removed and the result returned
Finish ==
    /\ ex_pc = "loop"
    /\ chunk_i >= numChunks
    /\ checkpoint' = NoCheckpoint
    /\ ex_pc' = "done"
    /\ UNCHANGED <<numChunks, kind, resume, start_chunk, chunk_i, total_qa_pairs,
                   api_calls, failed_chunks, output_file, distHist, notDist>>

\* the process is killed: what is in memory is lost, the files stay
Crash ==
    /\ ex_pc \in {"loop", "append", "save", "except"}
    /\ ex_pc' = "crashed"
    /\ start_chunk' = 0
    /\ chunk_i' = 0
    /\ total_qa_pairs' = 0
    /\ api_calls' = 0
    /\ failed_chunks' = 0
    /\ UNCHANGED <<numChunks, kind, resume, checkpoint, output_file, distHist, notDist>>

InitDistill ==
    /\ RotIdle
    /\ CkIdle
    /\ OcrIdle
    /\ ParseIdle
    /\ ConcIdle
    /\ PfcIdle
    /\ DdIdle
    /\ DirIdle
    /\ PoolStart(0)
    /\ GenIdle
    /\ WfIdle
    /\ ChunkIdle
    /\ \E n \in 1 .. MaxChunks :
         \E k \in [0 .. (n - 1) -> GenOutcomes] : DistStart(n, k)

NextDistill ==
    \/ \E r \in BOOLEAN : Execute(r)
    \/ GenerateQaPairs
    \/ AppendToJsonl
    \/ SaveCheckpoint
    \/ HandleException
    \/ Finish
    \/ Crash

SpecDistill == InitDistill /\ [][NextDistill]_vars

\* ------------------------------------------------------------------------
\* WorkflowManager.process_file and _resume_workflow
\* ------------------------------------------------------------------------
\* What FileRouterSkill.run can give: a recommended parser, or success=False
RouteOutcomes == {"native", "ocr", "fail"}

\* _save_workflow_checkpoint: the file after the call
SavedWorkflowCheckpoint(old, data) == IF enable_checkpoint THEN data ELSE old

\* process_file, its first step: self.current_step = 'routing' and the
\* checkpoint of the routing step
StartRouting ==
    /\ wf_current_step' = "routing"
    /\ wf_checkpoint' = SavedWorkflowCheckpoint(wf_checkpoint,
            [exists |-> TRUE, current_step |-> "routing", route_data |-> "none",
             parse_data |-> FALSE, error |-> FALSE])
    /\ wf_route_data' = "none"
    /\ wf_pc' = "routing"

\* A mutant of FailWorkflow: the failed result and the error checkpoint name
\* the routing step whatever step was executing
FailWorkflowNamesRouting ==
    /\ wf_checkpoint' = SavedWorkflowCheckpoint(wf_checkpoint,
            [exists |-> TRUE, current_step |-> "routing",
             route_data |-> "none", parse_data |-> FALSE, error |-> TRUE])
    /\ wf_result' = [success |-> FALSE, current_step |-> "routing"]
    /\ wf_pc' = "returned"

\* process_file, the except branch: the error checkpoint (without route_data
\* and parse_data) and the failed result
FailWorkflow ==
    /\ wf_checkpoint' = SavedWorkflowCheckpoint(wf_checkpoint,
            [exists |-> TRUE, current_step |-> wf_current_step,
             route_data |-> "none", parse_data |-> FALSE, error |-> TRUE])
    /\ wf_result' = [success |-> FALSE, current_step |-> wf_current_step]
    /\ wf_pc' = "returned"

\* process_file(file_path, ..., resume=r) is called: with a checkpoint and
\* resume it goes to _resume_workflow, which continues from the recorded step
\* (from the routing step, or an unknown one, by calling
\* process_file(resume=False))
ProcessFile(r) ==
    /\ wf_pc \in {"idle", "returned", "raised", "crashed"}
    /\ wf_calls < MaxCalls
    /\ wf_calls' = wf_calls + 1
    /\ IF r /\ enable_checkpoint /\ wf_checkpoint.exists
       THEN /\ wf_resumed' = TRUE
            /\ CASE wf_checkpoint.current_step = "parsing" ->
                      /\ wf_pc' = "resume_parsing"
                      /\ wf_route_data' = wf_checkpoint.route_data
                      /\ UNCHANGED <<wf_current_step, wf_checkpoint>>
                 [] wf_checkpoint.current_step = "chunking" ->
                      /\ wf_pc' = "resume_chunking"
                      /\ UNCHANGED <<wf_current_step, wf_checkpoint, wf_route_data>>
                 [] OTHER -> StartRouting
       ELSE /\ wf_resumed' = FALSE
            /\ StartRouting
    /\ UNCHANGED <<wf_result, notWf>>

\* Step 1: self.router.run, then the checkpoint of the parsing step
Route(out) ==
    /\ wf_pc = "routing"
    /\ IF out # "fail"
       THEN /\ wf_current_step' = "parsing"
            /\ wf_route_data' = out
            /\ wf_checkpoint' = SavedWorkflowCheckpoint(wf_checkpoint,
                    [exists |-> TRUE, current_step |-> "parsing",
                     route_data |-> out, parse_data |-> FALSE, error |-> FALSE])
            /\ wf_pc' = "parsing"
            /\ UNCHANGED wf_result
       ELSE /\ FailWorkflow
            /\ UNCHANGED <<wf_current_step, wf_route_data>>
    /\ UNCHANGED <<wf_calls, wf_resumed, notWf>>

\* Step 2: the parser's run, then the checkpoint of the chunking step
Parse(ok) ==
    /\ wf_pc = "parsing"
    /\ IF ok
       THEN /\ wf_current_step' = "chunking"
            /\ wf_checkpoint' = SavedWorkflowCheckpoint(wf_checkpoint,
                    [exists |-> TRUE, current_step |-> "chunking",
                     route_data |-> wf_route_data, parse_data |-> TRUE,
                     error |-> FALSE])
            /\ wf_pc' = "chunking"
            /\ UNCHANGED wf_result
       ELSE /\ FailWorkflow
            /\ UNCHANGED wf_current_step
    /\ UNCHANGED <<wf_route_data, wf_calls, wf_resumed, notWf>>

\* Step 3: self.chunker.run, then the checkpoint file is removed and the
\* successful result returned
ChunkStep(ok) ==
    /\ wf_pc = "chunking"
    /\ IF ok
       THEN /\ wf_checkpoint' = NoWorkflowCheckpoint
            /\ wf_result' = [success |-> TRUE, current_step |-> "none"]
            /\ wf_pc' = "returned"
       ELSE FailWorkflow
    /\ UNCHANGED <<wf_current_step, wf_route_data, wf_calls, wf_resumed, notWf>>

\* _resume_workflow, current_step == 'parsing': the parser is run on the
\* checkpoint's route_data; route_data['recommended_parser'] raises when the
\* checkpoint holds no route_data, and a failed parse raises
ResumeParse(ok) ==
    /\ wf_pc = "resume_parsing"
    /\ wf_pc' = IF wf_route_data # "none" /\ ok THEN "resume_rechunk" ELSE "raised"
    /\ UNCHANGED <<wf_current_step, wf_checkpoint, wf_route_data, wf_result,
                   wf_calls, wf_resumed, notWf>>

\* _resume_workflow: the chunker is run (on the checkpoint's parse_data when
\* current_step == 'chunking', which fails when there is none) and the
\* successful result returned, or an exception raised
ResumeChunk(ok) ==
    /\ wf_pc \in {"resume_chunking", "resume_rechunk"}
    /\ IF ok /\ (wf_pc = "resume_chunking" => wf_checkpoint.parse_data)
       THEN /\ wf_result' = [success |-> TRUE, current_step |-> "none"]
            /\ wf_pc' = "returned"
       ELSE /\ wf_pc' = "raised"
            /\ UNCHANGED wf_result
    /\ UNCHANGED <<wf_current_step, wf_checkpoint, wf_route_data, wf_calls,
                   wf_resumed, notWf>>

\* the process is killed: a new WorkflowManager is made for the next call
CrashWorkflow ==
    /\ wf_pc \in {"routing", "parsing", "chunking", "resume_parsing",
                  "resume_chunking", "resume_rechunk"}
    /\ wf_pc' = "crashed"
    /\ wf_current_step' = "none"
    /\ wf_route_data' = "none"
    /\ UNCHANGED <<wf_checkpoint, wf_result, wf_calls, wf_resumed, notWf>>

InitWorkflow ==
    /\ RotIdle
    /\ CkIdle
    /\ OcrIdle
    /\ ParseIdle
    /\ ConcIdle
    /\ PfcIdle
    /\ DdIdle
    /\ DirIdle
    /\ PoolStart(0)
    /\ GenIdle
    /\ DistIdle
    /\ WfIdle
    /\ ChunkIdle

NextWorkflow ==
    \/ \E r \in BOOLEAN : ProcessFile(r)
    \/ \E out \in RouteOutcomes : Route(out)
    \/ \E ok \in BOOLEAN : Parse(ok)
    \/ \E ok \in BOOLEAN : ChunkStep(ok)
    \/ \E ok \in BOOLEAN : ResumeParse(ok)
    \/ \E ok \in BOOLEAN : ResumeChunk(ok)
    \/ CrashWorkflow

SpecWorkflow == InitWorkflow /\ [][NextWorkflow]_vars

\* ------------------------------------------------------------------------
\* The text chunkers: split_text_into_chunks and SmartChunkerSkill
\* ------------------------------------------------------------------------
Min(S) == CHOOSE x \in S : \A y \in S : x <= y
Max(S) == CHOOSE x \in S : \A y \in S : x >= y

\* Python's s[a:b]: a negative index counts from the end, and both indices
\* are clamped to the string
SliceIndex(i, n) == IF i < 0 THEN (IF i + n < 0 THEN 0 ELSE i + n)
                    ELSE (IF i > n THEN n ELSE i)
PySlice(s, a, b) ==
    LET lo == SliceIndex(a, Len(s))
        hi == SliceIndex(b, Len(s))
    IN  IF lo >= hi THEN <<>> ELSE SubSeq(s, lo + 1, hi)

\* str.strip(): whitespace is removed at both ends
IsSpace(c) == c \in {Space, Newline}
Strip(s) ==
    LET kept == {i \in 1 .. Len(s) : ~IsSpace(s[i])}
    IN  IF kept = {} THEN <<>> ELSE SubSeq(s, Min(kept), Max(kept))

\* str.rfind(d): the highest index where d occurs, -1 when it does not
RFind(s, d) ==
    LET found == {p \in 0 .. Len(s) - Len(d) : SubSeq(s, p + 1, p + Len(d)) = d}
    IN  IF found = {} THEN -1 ELSE Max(found)

\* sep.join(parts)
RECURSIVE Join(_, _)
Join(parts, sep) ==
    IF parts = <<>> THEN <<>>
    ELSE IF Len(parts) = 1 THEN parts[1]
    ELSE parts[1] \o sep \o Join(Tail(parts), sep)

\* sum(len(p) for p in parts)
RECURSIVE SumLen(_)
SumLen(parts) == IF parts = <<>> THEN 0 ELSE Len(parts[1]) + SumLen(Tail(parts))

\* the delimiters split_text_into_chunks looks for, in its order
Delimiters == << <<FullStop, Newline>>, <<FullStop>>, <<ExclamationMark>>,
                 <<QuestionMark>>, <<Newline, Newline>> >>

\* split_text_into_chunks: where the chunk starting at st ends
SplitEnd(t, st, size) ==
    LET end == st + size
        search_start == IF st + size - SearchWindow > st
                        THEN st + size - SearchWindow ELSE st
        search_end == IF st + size + SearchWindow < Len(t)
                      THEN st + size + SearchWindow ELSE Len(t)
        search_text == PySlice(t, search_start, search_end)
        found == {k \in 1 .. Len(Delimiters) : RFind(search_text, Delimiters[k]) # -1}
    IN  IF end < Len(t) /\ found # {}
        THEN search_start + RFind(search_text, Delimiters[Min(found)])
                + Len(Delimiters[Min(found)])
        ELSE end

\* _split_paragraphs: re.split(r'\n\s*\n', text), each piece stripped, the
\* empty ones dropped. The leftmost match starts at the first newline that
\* is followed, over whitespace only, by another newline, and \s* being
\* greedy it ends at the last such newline.
RECURSIVE SplitParagraphs(_)
SplitParagraphs(s) ==
    LET Ends(i) == {j \in i + 1 .. Len(s) :
                        /\ s[j] = Newline
                        /\ \A k \in i + 1 .. j - 1 : IsSpace(s[k])}
        starts == {i \in 1 .. Len(s) : s[i] = Newline /\ Ends(i) # {}}
        Keep(piece) == IF Strip(piece) = <<>> THEN <<>> ELSE <<Strip(piece)>>
    IN  IF starts = {} THEN Keep(s)
        ELSE Keep(SubSeq(s, 1, Min(starts) - 1))
                \o SplitParagraphs(SubSeq(s, Max(Ends(Min(starts))) + 1, Len(s)))

\* _split_sentences: re.split(r'([。！？\.!?]+)', text), each piece joined
\* with the run of marks after it and stripped, the empty ones dropped, and
\* the remainder after the last mark kept when it is not blank
SentenceMarks == {FullStop, ExclamationMark, QuestionMark}
RECURSIVE SplitSentences(_)
SplitSentences(s) ==
    LET marks == {i \in 1 .. Len(s) : s[i] \in SentenceMarks}
        first == Min(marks)
        last == Max({j \in first .. Len(s) :
                        \A k \in first .. j : s[k] \in SentenceMarks})
    IN  IF marks = {}
        THEN (IF Strip(s) = <<>> THEN <<>> ELSE <<Strip(s)>>)
        ELSE <<Strip(SubSeq(s, 1, last))>>
                \o SplitSentences(SubSeq(s, last + 1, Len(s)))

\* _get_overlap_text
ParagraphBreak == <<Newline, Newline>>
GetOverlapText(parts, ov) ==
    IF parts = <<>> THEN <<>>
    ELSE LET combined == Join(parts, ParagraphBreak)
         IN  IF Len(combined) <= ov THEN combined
             ELSE PySlice(combined, 0 - ov, Len(combined))

\* _get_overlap_sentences: sentences are taken from the back until they
\* reach ov characters
RECURSIVE OverlapSentencesFrom(_, _, _, _, _)
OverlapSentencesFrom(sentences, k, acc, size, ov) ==
    IF k = 0 \/ size >= ov THEN acc
    ELSE OverlapSentencesFrom(sentences, k - 1, <<sentences[k]>> \o acc,
                              size + Len(sentences[k]), ov)
GetOverlapSentences(sentences, ov) ==
    OverlapSentencesFrom(sentences, Len(sentences), <<>>, 0, ov)

\* The locals of the three accumulating chunkers before their loop
NoParts == [chunks |-> <<>>, current_chunk |-> <<>>, current_size |-> 0,
            start_pos |-> 0]

\* "save the current chunk": the chunk is emitted and the overlap kept; the
\* sentence chunker joins with a space and keeps whole sentences, the
\* others join with a paragraph break and keep the tail of the text
SaveCurrent(acc, sep, ov) ==
    LET chunk_text == Join(acc.current_chunk, sep)
        overlap_text == GetOverlapText(acc.current_chunk, ov)
        kept == IF sep = <<Space>> THEN GetOverlapSentences(acc.current_chunk, ov)
                ELSE IF overlap_text # <<>> THEN <<overlap_text>> ELSE <<>>
    IN  [chunks |-> Append(acc.chunks,
                           [text |-> chunk_text, start_pos |-> acc.start_pos,
                            end_pos |-> acc.start_pos + Len(chunk_text)]),
         current_chunk |-> kept,
         current_size |-> SumLen(kept),
         start_pos |-> acc.start_pos + Len(chunk_text) - SumLen(kept)]

\* the test before a part is added
SaveIfOver(acc, part, size, sep, ov) ==
    IF acc.current_size + Len(part) > size /\ acc.current_chunk # <<>>
    THEN SaveCurrent(acc, sep, ov) ELSE acc

\* one iteration of "for part in parts"
AddPart(acc, part, size, sep, ov) ==
    LET a == SaveIfOver(acc, part, size, sep, ov)
    IN  [a EXCEPT !.current_chunk = Append(@, part),
                  !.current_size = @ + Len(part)]

RECURSIVE AddParts(_, _, _, _, _)
AddParts(acc, parts, size, sep, ov) ==
    IF parts = <<>> THEN acc
    ELSE AddParts(AddPart(acc, parts[1], size, sep, ov), Tail(parts), size, sep, ov)

\* "save the last chunk"
SaveLast(acc, sep) ==
    IF acc.current_chunk # <<>>
    THEN Append(acc.chunks,
                [text |-> Join(acc.current_chunk, sep),
                 start_pos |-> acc.start_pos,
                 end_pos |-> acc.start_pos + Len(Join(acc.current_chunk, sep))])
    ELSE acc.chunks

\* _sentence_chunk
SentenceChunks(content, size, ov) ==
    SaveLast(AddParts(NoParts, SplitSentences(content), size, <<Space>>, ov),
             <<Space>>)

\* _paragraph_chunk
ParagraphChunks(content, size, ov) ==
    SaveLast(AddParts(NoParts, SplitParagraphs(content), size, ParagraphBreak, ov),
             ParagraphBreak)

\* _smart_chunk: a short text is one chunk; otherwise paragraphs are
\* accumulated, and a paragraph longer than chunk_size sentence by sentence
RECURSIVE SmartAddParagraphs(_, _, _, _)
SmartAddParagraphs(acc, paras, size, ov) ==
    IF paras = <<>> THEN acc
    ELSE SmartAddParagraphs(
            IF Len(paras[1]) > size
            THEN AddParts(SaveIfOver(acc, paras[1], size, ParagraphBreak, ov),
                          SplitSentences(paras[1]), size, ParagraphBreak, ov)
            ELSE AddPart(acc, paras[1], size, ParagraphBreak, ov),
            Tail(paras), size, ov)
SmartChunks(content, size, ov) ==
    IF Len(content) <= size
    THEN <<[text |-> content, start_pos |-> 0, end_pos |-> Len(content)]>>
    ELSE SaveLast(SmartAddParagraphs(NoParts, SplitParagraphs(content), size, ov),
                  ParagraphBreak)

\* the texts the chunkers are given
Texts == UNION {[1 .. k -> Alphabet] : k \in 0 .. MaxTextLen}

\* the texts of the end-to-end scenario: letters, with one delimiter d put
\* at offset p (or with no delimiter at all)
ScenarioCuts == {0, ScenarioLen \div 2, ScenarioChunkSize - SearchWindow - 1,
                 ScenarioChunkSize - SearchWindow, ScenarioChunkSize - 1,
                 ScenarioChunkSize, ScenarioLen - 2, ScenarioLen - 1}
ScenarioText(p, d) ==
    [i \in 1 .. ScenarioLen |->
        IF i \in (p + 1) .. (p + Len(d)) THEN d[i - p] ELSE Letter]
ScenarioTexts ==
    {[i \in 1 .. ScenarioLen |-> Letter]} \cup
    {ScenarioText(p, Delimiters[k]) :
        p \in ScenarioCuts, k \in {j \in 1 .. Len(Delimiters) :
                                        \A c \in 1 .. Len(Delimiters[j]) :
                                            Delimiters[j][c] \in Alphabet}}

\* split_text_into_chunks(text, chunk_size, overlap) is called: a text no
\* longer than chunk_size is returned as the only chunk, a longer one
\* enters the while loop
SplitTextIntoChunks ==
    /\ ch_pc = "ready"
    /\ strategy' = "split_text_into_chunks"
    /\ IF Len(text) <= chunk_size
       THEN /\ out_chunks' = <<[text |-> text, start_pos |-> 0,
                                end_pos |-> Len(text)]>>
            /\ ch_pc' = "done"
       ELSE /\ out_chunks' = <<>>
            /\ ch_pc' = "split_loop"
    /\ ch_start' = 0
    /\ UNCHANGED <<text, chunk_size, overlap, ch_steps, notChunk>>

\* one iteration of the while loop of split_text_into_chunks, or its exit
SplitTextLoop ==
    /\ ch_pc = "split_loop"
    /\ IF ch_start < Len(text)
       THEN LET end == SplitEnd(text, ch_start, chunk_size)
                chunk == Strip(PySlice(text, ch_start, end))
            IN  /\ ch_steps < MaxSteps
                /\ out_chunks' = IF chunk # <<>>
                                 THEN Append(out_chunks,
                                             [text |-> chunk, start_pos |-> ch_start,
                                              end_pos |-> end])
                                 ELSE out_chunks
                /\ ch_start' = IF end < Len(text) THEN end - overlap ELSE end
                /\ ch_steps' = ch_steps + 1
                /\ UNCHANGED ch_pc
       ELSE /\ ch_pc' = "done"
            /\ UNCHANGED <<out_chunks, ch_start, ch_steps>>
    /\ UNCHANGED <<strategy, text, chunk_size, overlap, notChunk>>

\* SmartChunkerSkill.execute with strategy 'smart'
SmartChunk ==
    /\ ch_pc = "ready"
    /\ strategy' = "smart"
    /\ out_chunks' = SmartChunks(text, chunk_size, overlap)
    /\ ch_pc' = "done"
    /\ UNCHANGED <<text, chunk_size, overlap, ch_start, ch_steps, notChunk>>

\* SmartChunkerSkill.execute with strategy 'sentence'
SentenceChunk ==
    /\ ch_pc = "ready"
    /\ strategy' = "sentence"
    /\ out_chunks' = SentenceChunks(text, chunk_size, overlap)
    /\ ch_pc' = "done"
    /\ UNCHANGED <<text, chunk_size, overlap, ch_start, ch_steps, notChunk>>

\* SmartChunkerSkill.execute with strategy 'paragraph'
ParagraphChunk ==
    /\ ch_pc = "ready"
    /\ strategy' = "paragraph"
    /\ out_chunks' = ParagraphChunks(text, chunk_size, overlap)
    /\ ch_pc' = "done"
    /\ UNCHANGED <<text, chunk_size, overlap, ch_start, ch_steps, notChunk>>

\* SmartChunkerSkill.execute with strategy 'fixed': _fixed_chunk is entered
FixedChunk ==
    /\ ch_pc = "ready"
    /\ strategy' = "fixed"
    /\ out_chunks' = <<>>
    /\ ch_start' = 0
    /\ ch_pc' = "fixed_loop"
    /\ UNCHANGED <<text, chunk_size, overlap, ch_steps, notChunk>>

\* one iteration of the while loop of _fixed_chunk, or its exit
FixedChunkLoop ==
    /\ ch_pc = "fixed_loop"
    /\ IF ch_start < Len(text)
       THEN /\ ch_steps < MaxSteps
            /\ out_chunks' = Append(out_chunks,
                    [text |-> PySlice(text, ch_start, ch_start + chunk_size),
                     start_pos |-> ch_start, end_pos |-> ch_start + chunk_size])
            /\ ch_start' = ch_start + chunk_size - overlap
            /\ ch_steps' = ch_steps + 1
            /\ UNCHANGED ch_pc
       ELSE /\ ch_pc' = "done"
            /\ UNCHANGED <<out_chunks, ch_start, ch_steps>>
    /\ UNCHANGED <<strategy, text, chunk_size, overlap, notChunk>>

InitChunk ==
    /\ RotIdle
    /\ CkIdle
    /\ OcrIdle
    /\ ParseIdle
    /\ ConcIdle
    /\ PfcIdle
    /\ DdIdle
    /\ DirIdle
    /\ PoolStart(0)
    /\ GenIdle
    /\ DistIdle
    /\ WfIdle
    /\ ch_pc = "ready"
    /\ strategy = "none"
    /\ \/ /\ text \in Texts
          /\ chunk_size \in 1 .. MaxChunkSize
          /\ overlap \in 0 .. MaxOverlap
       \/ /\ text \in ScenarioTexts
          /\ chunk_size = ScenarioChunkSize
          /\ overlap = ScenarioOverlap
    /\ ch_start = 0
    /\ out_chunks = <<>>
    /\ ch_steps = 0

NextChunk ==
    \/ SplitTextIntoChunks
    \/ SplitTextLoop
    \/ SmartChunk
    \/ SentenceChunk
    \/ ParagraphChunk
    \/ FixedChunk
    \/ FixedChunkLoop

SpecChunk == InitChunk /\ [][NextChunk]_vars

\* ------------------------------------------------------------------------
\* WorkflowManager.process_directory
\* ------------------------------------------------------------------------
\* How the call of process_file on a file can end: it returns a result with
\* success True, a result with success False, or it raises (see FailWorkflow,
\* ResumeParse and ResumeChunk)
ProcessFileOutcomes == {"success", "failure", "raised"}

\* A mutant of ResultsAfterException: the except branch records nothing
ResultsAfterExceptionDropped(results) == results
\* the except branch of the loop: results.append({'success': False, ...})
ResultsAfterException(results) ==
    Append(results, [success |-> FALSE, from |-> "except"])

\* process_directory is called on a directory with total_files supported
\* files: the locals before the loop
ProcessDirectory ==
    /\ pd_pc = "idle"
    /\ pd_pc' = "loop"
    /\ pd_results' = <<>>
    /\ success_count' = 0
    /\ error_count' = 0
    /\ UNCHANGED <<total_files, pd_outcomes, pd_counted, notDir>>

\* One iteration of `for i, file_path in enumerate(files, 1)`: process_file
\* ends in outcome; for a successful result _save_chunks writes the chunks
\* (saved) or raises; the except branch counts an error
ProcessOneFile(outcome, saved) ==
    /\ pd_pc = "loop"
    /\ Len(pd_outcomes) < total_files
    /\ saved => outcome = "success"
    /\ pd_outcomes' = Append(pd_outcomes, [result |-> outcome, saved |-> saved])
    /\ CASE outcome = "success" /\ saved ->
              /\ success_count' = success_count + 1
              /\ pd_results' = Append(pd_results,
                                      [success |-> TRUE, from |-> "process_file"])
              /\ pd_counted' = Append(pd_counted, "success")
              /\ UNCHANGED error_count
         [] outcome = "failure" ->
              /\ error_count' = error_count + 1
              /\ pd_results' = Append(pd_results,
                                      [success |-> FALSE, from |-> "process_file"])
              /\ pd_counted' = Append(pd_counted, "error")
              /\ UNCHANGED success_count
         [] OTHER ->
              /\ error_count' = error_count + 1
              /\ pd_results' = ResultsAfterException(pd_results)
              /\ pd_counted' = Append(pd_counted, "error")
              /\ UNCHANGED success_count
    /\ UNCHANGED <<pd_pc, total_files, notDir>>

\* the loop is over: the summary is returned
ReturnSummary ==
    /\ pd_pc = "loop"
    /\ Len(pd_outcomes) >= total_files
    /\ pd_pc' = "done"
    /\ UNCHANGED <<total_files, pd_results, success_count, error_count,
                   pd_outcomes, pd_counted, notDir>>

InitDirectory ==
    /\ RotIdle
    /\ CkIdle
    /\ OcrIdle
    /\ ParseIdle
    /\ ConcIdle
    /\ PfcIdle
    /\ DdIdle
    /\ PoolStart(0)
    /\ GenIdle
    /\ DistIdle
    /\ WfIdle
    /\ ChunkIdle
    /\ pd_pc = "idle"
    /\ total_files \in 0 .. MaxFiles
    /\ pd_results = <<>>
    /\ success_count = 0
    /\ error_count = 0
    /\ pd_outcomes = <<>>
    /\ pd_counted = <<>>

NextDirectory ==
    \/ ProcessDirectory
    \/ \E outcome \in ProcessFileOutcomes, saved \in BOOLEAN :
            ProcessOneFile(outcome, saved)
    \/ ReturnSummary

SpecDirectory == InitDirectory /\ [][NextDirectory]_vars

\* ------------------------------------------------------------------------
\* DataDistiller.__init__ and DataDistiller.process_file
\* ------------------------------------------------------------------------
\* create_default_rotator: None when no key is configured in the environment
CreateDefaultRotator(env) == IF env = 0 THEN "None" ELSE "rotator"

\* DataDistiller.__init__: self.rotator after the use_rotation branch
RotatorOf(args, env) ==
    IF args.use_rotation
    THEN (IF args.api_keys > 0 THEN "rotator" ELSE CreateDefaultRotator(env))
    ELSE "None"

\* DataDistiller.__init__ raises: len(self.rotator.api_keys) on a rotator that
\* is None, or ValueError without rotation and without api_key
InitRaises(args, env) ==
    IF args.use_rotation
    THEN args.api_keys = 0 /\ CreateDefaultRotator(env) # "rotator"
    ELSE ~args.api_key

\* What distill_with_gemini can end in: it returns pairs, raises
\* CONTEXT_TOO_LONG, or raises another exception
DistillOutcomes == {"pairs", "context_too_long", "error"}

\* DataDistiller(api_key, api_keys, use_rotation)
Construct ==
    /\ dd_pc = "new"
    /\ IF InitRaises(dd_args, env_keys)
       THEN /\ dd_pc' = "init_raised"
            /\ dd_rotator' = IF dd_args.use_rotation
                             THEN RotatorOf(dd_args, env_keys) ELSE "unset"
            /\ UNCHANGED dd_api_key
       ELSE /\ dd_pc' = "constructed"
            /\ dd_rotator' = RotatorOf(dd_args, env_keys)
            /\ dd_api_key' = (~dd_args.use_rotation /\ dd_args.api_key)
    /\ UNCHANGED <<dd_args, env_keys, dd_calls, dd_result, dd_runs, notDd>>

\* process_file(file_path) is called
DdProcessFile ==
    /\ dd_pc \in {"constructed", "returned", "raised"}
    /\ dd_runs < MaxDdRuns
    /\ dd_runs' = dd_runs + 1
    /\ dd_pc' = "extract"
    /\ dd_calls' = <<>>
    /\ dd_result' = "none"
    /\ UNCHANGED <<dd_args, env_keys, dd_rotator, dd_api_key, notDd>>

\* text = extract_text(file_path)
ExtractText(ok) ==
    /\ dd_pc = "extract"
    /\ dd_calls' = Append(dd_calls, "extract_text")
    /\ dd_pc' = IF ok THEN "distill" ELSE "raised"
    /\ UNCHANGED <<dd_args, env_keys, dd_rotator, dd_api_key, dd_result, dd_runs,
                   notDd>>

\* distill_with_gemini(text, ...), and the except branch around it
DistillWithGemini(outcome) ==
    /\ dd_pc = "distill"
    /\ dd_calls' = Append(dd_calls, "distill_with_gemini")
    /\ dd_pc' = CASE outcome = "pairs" -> "save"
                  [] outcome = "context_too_long" -> "zhipu"
                  [] OTHER -> "raised"
    /\ UNCHANGED <<dd_args, env_keys, dd_rotator, dd_api_key, dd_result, dd_runs,
                   notDd>>

\* distill_with_zhipu(text, self.zhipu_api_key, num_pairs)
DistillWithZhipu(ok) ==
    /\ dd_pc = "zhipu"
    /\ dd_calls' = Append(dd_calls, "distill_with_zhipu")
    /\ dd_pc' = IF ok THEN "save" ELSE "raised"
    /\ UNCHANGED <<dd_args, env_keys, dd_rotator, dd_api_key, dd_result, dd_runs,
                   notDd>>

\* saved_path = save_as_jsonl(...); return saved_path
SaveAsJsonl(ok) ==
    /\ dd_pc = "save"
    /\ dd_calls' = Append(dd_calls, "save_as_jsonl")
    /\ dd_pc' = IF ok THEN "returned" ELSE "raised"
    /\ dd_result' = IF ok THEN "saved_path" ELSE "none"
    /\ UNCHANGED <<dd_args, env_keys, dd_rotator, dd_api_key, dd_runs, notDd>>

InitDataDistiller ==
    /\ RotIdle
    /\ CkIdle
    /\ OcrIdle
    /\ ParseIdle
    /\ ConcIdle
    /\ PfcIdle
    /\ PoolStart(0)
    /\ GenIdle
    /\ DistIdle
    /\ WfIdle
    /\ ChunkIdle
    /\ DirIdle
    /\ dd_pc = "new"
    /\ dd_args \in [api_key : BOOLEAN, api_keys : 0 .. MaxKeys,
                    use_rotation : BOOLEAN]
    /\ env_keys \in 0 .. MaxKeys
    /\ dd_rotator = "unset"
    /\ dd_api_key = FALSE
    /\ dd_calls = <<>>
    /\ dd_result = "none"
    /\ dd_runs = 0

NextDataDistiller ==
    \/ Construct
    \/ DdProcessFile
    \/ \E ok \in BOOLEAN : ExtractText(ok)
    \/ \E outcome \in DistillOutcomes : DistillWithGemini(outcome)
    \/ \E ok \in BOOLEAN : DistillWithZhipu(ok)
    \/ \E ok \in BOOLEAN : SaveAsJsonl(ok)

SpecDataDistiller == InitDataDistiller /\ [][NextDataDistiller]_vars

\* ------------------------------------------------------------------------
\* APIKeyRotator, distill_with_gemini and DataDistiller.process_file_chunked
\* ------------------------------------------------------------------------
\* APIKeyRotator.__init__: the status of a key
NewKeyStatus ==
    [last_used |-> None, error_count |-> 0, total_calls |-> 0, is_available |-> TRUE]

\* APIKeyRotator(api_keys) with n keys
NewRotator(n) ==
    [api_keys |-> n, current_index |-> 0,
     key_status |-> [k \in 0 .. n - 1 |-> NewKeyStatus]]

\* _check_cooldown at time t: a key that is unavailable and has a last_used
\* at least cooldown_minutes back is made available, its error_count reset
CheckCooldown(ks, t) ==
    [k \in DOMAIN ks |->
        IF /\ ~ks[k].is_available
           /\ ks[k].last_used # None
           /\ t - ks[k].last_used >= rotator_cooldown_minutes
        THEN [ks[k] EXCEPT !.is_available = TRUE, !.error_count = 0]
        ELSE ks[k]]

\* _rotate_to_next_available at time t: after _check_cooldown the index steps
\* forward up to len(api_keys) times and stops at the first available key;
\* RuntimeError, the index back where it was, when no key is available
RotateToNextAvailable(rot, t) ==
    LET ks == CheckCooldown(rot.key_status, t)
        n == rot.api_keys
        At(a) == (rot.current_index + a) % n
        Hits == {a \in 1 .. n : ks[At(a)].is_available}
    IN  IF Hits = {}
        THEN [rot |-> [rot EXCEPT !.key_status = ks], raised |-> TRUE]
        ELSE [rot |-> [rot EXCEPT !.key_status = ks,
                                  !.current_index =
                                      At(CHOOSE a \in Hits : \A b \in Hits : a <= b)],
              raised |-> FALSE]

\* mark_success at time t
MarkSuccess(rot, t) ==
    [rot EXCEPT !.key_status[rot.current_index] =
        [@ EXCEPT !.last_used = t, !.total_calls = @ + 1, !.error_count = 0]]

\* mark_quota_exceeded at time t: the current key is made unavailable, then
\* _rotate_to_next_available
MarkQuotaExceeded(rot, t) ==
    RotateToNextAvailable(
        [rot EXCEPT !.key_status[rot.current_index] =
            [@ EXCEPT !.is_available = FALSE, !.last_used = t]], t)

\* mark_error at time t: one more error for the current key; at the limit the
\* key is made unavailable and _rotate_to_next_available is called
MarkError(rot, t) ==
    LET counted == [rot EXCEPT !.key_status[rot.current_index].error_count = @ + 1]
    IN  IF counted.key_status[rot.current_index].error_count >= RotatorErrorLimit
        THEN RotateToNextAvailable(
                 [counted EXCEPT !.key_status[rot.current_index].is_available = FALSE],
                 t)
        ELSE [rot |-> counted, raised |-> FALSE]

\* A mutant of RotatorAfterContextError: the key is charged with an error
RotatorAfterContextErrorCharged(rot, rotation, t) ==
    IF rotation THEN MarkError(rot, t).rot ELSE rot
\* distill_with_gemini, the context-too-long branch: the exception is raised
\* without a call of the rotator
RotatorAfterContextError(rot, rotation, t) == rot

\* What one generate_content call of distill_with_gemini can end in: a list
\* of pairs, a response json.loads rejects, a quota error, a context-too-long
\* error, another error
GeminiOutcomes == {"pairs", "unparsable", "quota", "context", "error"}

\* distill_with_gemini, one call of generate_content and what follows it up
\* to the return, the raise or the recursive call: the rotator afterwards
\* and how the call ends ("return", "retry" for the recursive call,
\* "context_too_long" and "raise" for the two kinds of exception)
GeminiCall(rot, rotation, t, outcome) ==
    CASE outcome = "pairs" ->
            [rot |-> IF rotation THEN MarkSuccess(rot, t) ELSE rot, ends |-> "return"]
      [] outcome = "quota" ->
            IF rotation
            THEN LET q == MarkQuotaExceeded(rot, t)
                 IN  [rot |-> q.rot, ends |-> IF q.raised THEN "raise" ELSE "retry"]
            ELSE [rot |-> rot, ends |-> "raise"]
      [] outcome = "context" ->
            [rot |-> RotatorAfterContextError(rot, rotation, t),
             ends |-> "context_too_long"]
      [] OTHER ->
            [rot |-> IF rotation THEN MarkError(rot, t).rot ELSE rot, ends |-> "raise"]

\* the key a call is made with: rotator.get_current_key(), or None for the
\* api_key of a distiller without rotation
KeyOfCall == IF use_rotation THEN rotator.current_index ELSE None

\* the loop of process_file_chunked goes on to the next chunk, or to the save
PfcAdvance ==
    IF pfc_i < pfc_chunks
    THEN pfc_i' = pfc_i + 1 /\ pfc_pc' = "distill"
    ELSE pfc_i' = pfc_i /\ pfc_pc' = "save"

\* process_file_chunked(file_path) on a distiller just constructed: extract_text and split_text_into_chunks
\* give n chunks, or extract_text raises
ProcessFileChunked(n, ok) ==
    /\ pfc_pc = "ready"
    /\ pfc_chunks' = IF ok THEN n ELSE 0
    /\ pfc_i' = IF ok THEN 1 ELSE 0
    /\ pfc_pc' = IF ok THEN "distill" ELSE "raised"
    /\ all_distilled_data' = <<>>
    /\ pfc_output' = <<>>
    /\ pfc_calls' = <<>>
    /\ UNCHANGED <<use_rotation, rotator, rot_now, notPfc>>

\* One generate_content call for chunk pfc_i inside distill_with_gemini, and
\* the try/except of process_file_chunked around distill_with_gemini
ChunkedDistillWithGemini(outcome) ==
    /\ pfc_pc = "distill"
    /\ LET r == GeminiCall(rotator, use_rotation, rot_now, outcome)
           key == KeyOfCall
       IN  /\ rotator' = r.rot
           /\ pfc_calls' = Append(pfc_calls,
                 [chunk |-> pfc_i, provider |-> "gemini", key |-> key,
                  outcome |-> outcome, at |-> rot_now,
                  before |-> IF use_rotation THEN rotator.key_status[key]
                                             ELSE NewKeyStatus,
                  after |-> IF use_rotation THEN r.rot.key_status[key]
                                            ELSE NewKeyStatus])
           /\ CASE r.ends = "return" ->
                     /\ all_distilled_data' = Append(all_distilled_data, pfc_i)
                     /\ PfcAdvance
                [] r.ends = "retry" ->
                     /\ UNCHANGED <<all_distilled_data, pfc_i, pfc_pc>>
                [] r.ends = "context_too_long" ->
                     /\ pfc_pc' = "zhipu"
                     /\ UNCHANGED <<all_distilled_data, pfc_i>>
                [] OTHER ->
                     /\ UNCHANGED all_distilled_data
                     /\ PfcAdvance
    /\ UNCHANGED <<use_rotation, rot_now, pfc_chunks, pfc_output, notPfc>>

\* distill_with_zhipu(chunk, ...) after CONTEXT_TOO_LONG, and the inner
\* try/except of process_file_chunked
ChunkedDistillWithZhipu(ok) ==
    /\ pfc_pc = "zhipu"
    /\ pfc_calls' = Append(pfc_calls,
          [chunk |-> pfc_i, provider |-> "zhipu", key |-> None,
           outcome |-> IF ok THEN "pairs" ELSE "error", at |-> rot_now,
           before |-> NewKeyStatus, after |-> NewKeyStatus])
    /\ all_distilled_data' = IF ok THEN Append(all_distilled_data, pfc_i)
                                   ELSE all_distilled_data
    /\ PfcAdvance
    /\ UNCHANGED <<use_rotation, rotator, rot_now, pfc_chunks, pfc_output,
                   notPfc>>

\* save_as_jsonl(all_distilled_data, output_path): the file is opened with
\* 'w' and every pair written; or the write raises
ChunkedSaveAsJsonl(ok) ==
    /\ pfc_pc = "save"
    /\ pfc_output' = IF ok THEN all_distilled_data ELSE pfc_output
    /\ pfc_pc' = IF ok THEN "returned" ELSE "raised"
    /\ UNCHANGED <<use_rotation, rotator, rot_now, pfc_chunks, pfc_i,
                   all_distilled_data, pfc_calls, notPfc>>

\* Time passes before a generate_content call
RotTick ==
    /\ pfc_pc = "distill"
    /\ rot_now + TickMinutes <= MaxRotTime
    /\ rot_now' = rot_now + TickMinutes
    /\ UNCHANGED <<use_rotation, rotator, pfc_pc, pfc_chunks, pfc_i,
                   all_distilled_data, pfc_output, pfc_calls, notPfc>>

\* A DataDistiller just constructed: with rotation and a new rotator of 1 to
\* MaxRotKeys keys, or without rotation
InitChunked ==
    /\ RotIdle
    /\ CkIdle
    /\ OcrIdle
    /\ ParseIdle
    /\ ConcIdle
    /\ PoolStart(0)
    /\ GenIdle
    /\ DistIdle
    /\ WfIdle
    /\ ChunkIdle
    /\ DirIdle
    /\ DdIdle
    /\ use_rotation \in BOOLEAN
    /\ rotator \in IF use_rotation THEN {NewRotator(n) : n \in 1 .. MaxRotKeys}
                                   ELSE {NoRotator}
    /\ rot_now = 0
    /\ pfc_pc = "ready"
    /\ pfc_chunks = 0
    /\ pfc_i = 0
    /\ all_distilled_data = <<>>
    /\ pfc_output = <<>>
    /\ pfc_calls = <<>>

NextChunked ==
    \/ \E n \in 1 .. MaxPfcChunks, ok \in BOOLEAN : ProcessFileChunked(n, ok)
    \/ \E outcome \in GeminiOutcomes : ChunkedDistillWithGemini(outcome)
    \/ \E ok \in BOOLEAN : ChunkedDistillWithZhipu(ok)
    \/ \E ok \in BOOLEAN : ChunkedSaveAsJsonl(ok)
    \/ RotTick

SpecChunked == InitChunked /\ [][NextChunked]_vars

\* ------------------------------------------------------------------------
\* APIManagerSkill called from several worker threads
\* ------------------------------------------------------------------------
\* APIManagerSkill holds no lock, and its methods are ordinary functions:
\* a worker thread can be suspended inside a method, so a call is followed
\* in the steps that read and that write the shared fields.

\* get_available_api, its first step:
\* start_index = self.current_index[provider]
GetReadIndex(w) ==
    /\ w_pc[w] = "idle"
    /\ ops < MaxOps
    /\ ops' = ops + 1
    /\ w_start' = [w_start EXCEPT ![w] = current_index]
    /\ w_pc' = [w_pc EXCEPT ![w] = "get_scan"]
    /\ UNCHANGED <<poolVars, poolHist, w_api, w_read, w_ret, gets_done,
                   failures_done, success_called, notPoolConc>>

\* get_available_api, the rest: the loop from the start_index read before,
\* the write of self.current_index[provider] and the return
GetScan(w) ==
    /\ w_pc[w] = "get_scan"
    /\ LET index == SelectApi(api_stats, numApis, w_start[w], now) IN
       /\ api_stats' = StatsAfterGet(api_stats, numApis, w_start[w], now)
       /\ current_index' = IF index = None THEN current_index
                           ELSE IndexAfterGet(api_stats, numApis, w_start[w], now)
       /\ w_ret' = [w_ret EXCEPT ![w] = index]
       /\ gets_done' = IF index = None THEN gets_done ELSE gets_done + 1
    /\ w_pc' = [w_pc EXCEPT ![w] = "idle"]
    /\ UNCHANGED <<numApis, now, poolHist, w_start, w_api, w_read, ops,
                   failures_done, success_called, notPoolConc>>

\* report_failure(api_id), its first step: the read of
\* stats['consecutive_failures'] in `stats['consecutive_failures'] += 1`
ReportFailureRead(w, c) ==
    /\ w_pc[w] = "idle"
    /\ ops < MaxOps
    /\ c \in Apis
    /\ ops' = ops + 1
    /\ w_api' = [w_api EXCEPT ![w] = c]
    /\ w_read' = [w_read EXCEPT ![w] = api_stats[c].consecutive_failures]
    /\ w_pc' = [w_pc EXCEPT ![w] = "fail_write"]
    /\ UNCHANGED <<poolVars, poolHist, w_start, w_ret, gets_done, failures_done,
                   success_called, notPoolConc>>

\* report_failure, the rest: the write of the value read plus one, and the
\* check against failure_threshold
ReportFailureWrite(w) ==
    /\ w_pc[w] = "fail_write"
    /\ LET c == w_api[w]
           seen == [api_stats EXCEPT ![c].consecutive_failures = w_read[w]] IN
       /\ api_stats' = StatsAfterFailure(seen, numApis, c, now)
       /\ failures_done' = [failures_done EXCEPT ![c] = @ + 1]
    /\ w_pc' = [w_pc EXCEPT ![w] = "idle"]
    /\ UNCHANGED <<numApis, current_index, now, poolHist, w_start, w_api, w_read,
                   w_ret, ops, gets_done, success_called, notPoolConc>>

\* report_success(api_id): stats['consecutive_failures'] = 0
ReportSuccessCall(w, c) ==
    /\ w_pc[w] = "idle"
    /\ ops < MaxOps
    /\ c \in Apis
    /\ ops' = ops + 1
    /\ api_stats' = StatsAfterSuccess(api_stats, numApis, c)
    /\ success_called' = success_called \cup {c}
    /\ UNCHANGED <<numApis, current_index, now, poolHist, w_pc, w_start, w_api,
                   w_read, w_ret, gets_done, failures_done, notPoolConc>>

\* A pool with one credential or more, and the workers outside it
InitConcurrent ==
    /\ RotIdle
    /\ CkIdle
    /\ OcrIdle
    /\ ParseIdle
    /\ \E n \in 1 .. MaxApis : PoolStart(n)
    /\ GenIdle
    /\ DistIdle
    /\ WfIdle
    /\ ChunkIdle
    /\ DirIdle
    /\ DdIdle
    /\ PfcIdle
    /\ ConcIdle

NextConcurrent ==
    \/ \E w \in Workers : GetReadIndex(w)
    \/ \E w \in Workers : GetScan(w)
    \/ \E w \in Workers, c \in 0 .. MaxApis - 1 : ReportFailureRead(w, c)
    \/ \E w \in Workers : ReportFailureWrite(w)
    \/ \E w \in Workers, c \in 0 .. MaxApis - 1 : ReportSuccessCall(w, c)

SpecConcurrent == InitConcurrent /\ [][NextConcurrent]_vars

\* ------------------------------------------------------------------------
\* DataDistillerSkill._parse_response and _append_to_jsonl
\* ------------------------------------------------------------------------
\* The values a field of a response element can hold: strings of letters and
\* spaces, and a value that is not a string (a number, null)
FieldStrings ==
    {<<>>, <<Space>>, <<Letter>>, <<Space, Letter>>, <<Letter, Space>>}
FieldValues ==
    {[is_str |-> TRUE, s |-> s] : s \in FieldStrings}
        \cup {[is_str |-> FALSE, s |-> <<>>]}

\* The elements of the JSON array of a response: something that is not an
\* object, an object without 'question' or without 'answer', an object
\* with both
Elements ==
    {[shape |-> "not_dict", question |-> [is_str |-> FALSE, s |-> <<>>],
      answer |-> [is_str |-> FALSE, s |-> <<>>]],
     [shape |-> "key_missing", question |-> [is_str |-> FALSE, s |-> <<>>],
      answer |-> [is_str |-> FALSE, s |-> <<>>]]}
        \cup {[shape |-> "pair", question |-> q, answer |-> a] :
                 q \in FieldValues, a \in FieldValues}

\* The responses: no '[...]' span in the text, a span json.loads rejects, a
\* JSON array
Responses ==
    {[shape |-> "no_array", elements |-> <<>>],
     [shape |-> "bad_json", elements |-> <<>>]}
        \cup {[shape |-> "array", elements |-> e] :
                 e \in UNION {[1 .. k -> Elements] : k \in 0 .. MaxElements}}

\* _parse_response, the test of the loop: isinstance(pair, dict) and
\* 'question' in pair and 'answer' in pair
IsValidPair(pair) == pair.shape = "pair"

\* _parse_response raises: .strip() is called on a value that is no string
StripRaises(elements) ==
    \E k \in 1 .. Len(elements) :
        /\ IsValidPair(elements[k])
        /\ ~elements[k].question.is_str \/ ~elements[k].answer.is_str

\* _parse_response, the loop from element k on: the valid pairs, stripped
RECURSIVE ValidPairsFrom(_, _)
ValidPairsFrom(elements, k) ==
    IF k > Len(elements) THEN <<>>
    ELSE IF IsValidPair(elements[k])
         THEN <<[question |-> Strip(elements[k].question.s),
                 answer |-> Strip(elements[k].answer.s)]>>
                  \o ValidPairsFrom(elements, k + 1)
         ELSE ValidPairsFrom(elements, k + 1)

\* _parse_response(response): the list returned when it does not raise
ParseResponseResult(r) ==
    IF r.shape = "array" THEN ValidPairsFrom(r.elements, 1) ELSE <<>>

\* qa_pairs = self._parse_response(response)
ParseResponse ==
    /\ pr_pc = "response"
    /\ IF response.shape = "array" /\ StripRaises(response.elements)
       THEN pr_pc' = "raised" /\ UNCHANGED valid_pairs
       ELSE pr_pc' = "parsed" /\ valid_pairs' = ParseResponseResult(response)
    /\ UNCHANGED <<response, written_lines, notParse>>

\* execute: `if qa_pairs: self._append_to_jsonl(qa_pairs)`, one line a pair
AppendPairs ==
    /\ pr_pc = "parsed"
    /\ written_lines' = IF valid_pairs # <<>> THEN valid_pairs ELSE written_lines
    /\ pr_pc' = IF valid_pairs # <<>> THEN "appended" ELSE "not_appended"
    /\ UNCHANGED <<response, valid_pairs, notParse>>

\* An LLM call has returned a response
InitParse ==
    /\ RotIdle
    /\ CkIdle
    /\ OcrIdle
    /\ PoolStart(0)
    /\ GenIdle
    /\ DistIdle
    /\ WfIdle
    /\ ChunkIdle
    /\ DirIdle
    /\ DdIdle
    /\ PfcIdle
    /\ ConcIdle
    /\ pr_pc = "response"
    /\ response \in Responses
    /\ valid_pairs = <<>>
    /\ written_lines = <<>>

NextParse ==
    \/ ParseResponse
    \/ AppendPairs

SpecParse == InitParse /\ [][NextParse]_vars

\* ------------------------------------------------------------------------
\* OCRParserSkill._process_pdf, with process crashes and restarts
\* ------------------------------------------------------------------------
\* The checkpoint directory: process_file and DataDistillerSkill.execute on
\* several source documents
\* ------------------------------------------------------------------------
\* The source documents: report.txt and report.pdf in one directory, a
\* report.txt in another directory, and a document of another base name
SourcePaths ==
    {[dir |-> "docs", stem |-> "report", suffix |-> "txt"],
     [dir |-> "docs", stem |-> "report", suffix |-> "pdf"],
     [dir |-> "archive", stem |-> "report", suffix |-> "txt"],
     [dir |-> "docs", stem |-> "notes", suffix |-> "txt"]}
NoPath == [dir |-> "", stem |-> "", suffix |-> ""]

\* Path(p).stem: the last component without its suffix
PathStem(path) == path.stem

\* checkpoint_dir / f"{file_path.stem}_workflow.json"
WorkflowCheckpointFile(path) == <<PathStem(path), "_workflow.json">>

\* checkpoint_dir / f"{Path(source_file).stem}_distill_checkpoint.json"
DistillCheckpointFile(path) == <<PathStem(path), "_distill_checkpoint.json">>

CheckpointFiles ==
    {WorkflowCheckpointFile(p) : p \in SourcePaths}
        \cup {DistillCheckpointFile(p) : p \in SourcePaths}

\* the file f is opened for writing and the data of the document path
\* dumped into it
WriteCheckpoint(f, path) ==
    /\ ck_files' = [ck_files EXCEPT ![f] = path]
    /\ ck_overwritten' = IF ck_files[f] # NoPath
                         THEN ck_overwritten \cup {[by |-> path, of |-> ck_files[f]]}
                         ELSE ck_overwritten

\* process_file(path, resume=r): an existing checkpoint file is loaded and
\* handed to _resume_workflow; otherwise the workflow starts and writes the
\* checkpoint of the routing step
CkProcessFile(path, r) ==
    /\ ck_pc = "idle"
    /\ ck_runs < MaxCkRuns
    /\ ck_runs' = ck_runs + 1
    /\ ck_path' = path
    /\ LET f == WorkflowCheckpointFile(path)
       IN  IF r /\ enable_checkpoint /\ ck_files[f] # NoPath
           THEN /\ ck_loaded' = ck_loaded \cup {[by |-> path, of |-> ck_files[f]]}
                /\ ck_pc' = "resumed"
                /\ UNCHANGED <<ck_files, ck_overwritten>>
           ELSE /\ WriteCheckpoint(f, path)
                /\ ck_pc' = "workflow"
                /\ UNCHANGED ck_loaded
    /\ UNCHANGED notCk

\* the workflow ends: with success the checkpoint file is removed, with an
\* error the error checkpoint is written; _resume_workflow returns or
\* raises and leaves the file; or the process is killed
CkWorkflowEnd(outcome) ==
    /\ ck_pc \in {"workflow", "resumed"}
    /\ ck_pc' = "idle"
    /\ LET f == WorkflowCheckpointFile(ck_path)
       IN  IF ck_pc = "workflow" /\ outcome = "success"
           THEN /\ ck_files' = [ck_files EXCEPT ![f] = NoPath]
                /\ UNCHANGED ck_overwritten
           ELSE IF ck_pc = "workflow" /\ outcome = "failure"
           THEN WriteCheckpoint(f, ck_path)
           ELSE UNCHANGED <<ck_files, ck_overwritten>>
    /\ UNCHANGED <<ck_path, ck_loaded, ck_runs, notCk>>

\* DataDistillerSkill.execute(source_file=path, resume=r): an existing
\* checkpoint file is loaded
CkExecute(path, r) ==
    /\ ck_pc = "idle"
    /\ ck_runs < MaxCkRuns
    /\ ck_runs' = ck_runs + 1
    /\ ck_path' = path
    /\ ck_pc' = "distill"
    /\ LET f == DistillCheckpointFile(path)
       IN  ck_loaded' = IF r /\ ck_files[f] # NoPath
                        THEN ck_loaded \cup {[by |-> path, of |-> ck_files[f]]}
                        ELSE ck_loaded
    /\ UNCHANGED <<ck_files, ck_overwritten, notCk>>

\* a chunk is processed (or fails): the checkpoint is saved
CkDistillChunk ==
    /\ ck_pc = "distill"
    /\ WriteCheckpoint(DistillCheckpointFile(ck_path), ck_path)
    /\ UNCHANGED <<ck_pc, ck_path, ck_loaded, ck_runs, notCk>>

\* execute ends: after the last chunk the checkpoint file is removed; when
\* it raises, or the process is killed, the file stays
CkExecuteEnd(completed) ==
    /\ ck_pc = "distill"
    /\ ck_pc' = "idle"
    /\ ck_files' = IF completed
                   THEN [ck_files EXCEPT ![DistillCheckpointFile(ck_path)] = NoPath]
                   ELSE ck_files
    /\ UNCHANGED <<ck_path, ck_loaded, ck_overwritten, ck_runs, notCk>>

InitCheckpoints ==
    /\ RotIdle
    /\ PoolStart(0)
    /\ GenIdle
    /\ DistIdle
    /\ WfIdle
    /\ ChunkIdle
    /\ DirIdle
    /\ DdIdle
    /\ PfcIdle
    /\ ConcIdle
    /\ ParseIdle
    /\ OcrIdle
    /\ ck_files = [f \in CheckpointFiles |-> NoPath]
    /\ ck_pc = "idle"
    /\ ck_path = NoPath
    /\ ck_loaded = {}
    /\ ck_overwritten = {}
    /\ ck_runs = 0

NextCheckpoints ==
    \/ \E path \in SourcePaths, r \in BOOLEAN : CkProcessFile(path, r)
    \/ \E outcome \in {"success", "failure", "crash"} : CkWorkflowEnd(outcome)
    \/ \E path \in SourcePaths, r \in BOOLEAN : CkExecute(path, r)
    \/ CkDistillChunk
    \/ \E completed \in BOOLEAN : CkExecuteEnd(completed)

SpecCheckpoints == InitCheckpoints /\ [][NextCheckpoints]_vars

\* ------------------------------------------------------------------------
\* APIKeyRotator driven call by call: distill_with_gemini calls mark_success,
\* mark_quota_exceeded or mark_error after each generate_content
\* ------------------------------------------------------------------------
\* the availability of the keys is followed from one rotator state to the
\* next: when each key was made unavailable (marked is the key the call
\* has set unavailable, None when it set none), and which were restored
DisabledAtAfter(marked, after, t) ==
    [k \in DOMAIN after.key_status |->
        IF after.key_status[k].is_available THEN None
        ELSE IF k = marked THEN t
        ELSE rot_disabled_at[k]]
RestoredAfter(before, after, t) ==
    rot_restored \cup
        {[key |-> k, disabled_at |-> rot_disabled_at[k], at |-> t] :
            k \in {j \in DOMAIN after.key_status :
                        /\ ~before.key_status[j].is_available
                        /\ after.key_status[j].is_available}}

\* a call of the rotator that takes it to the state after; marked is the
\* key it has set unavailable, and the call has then rotated
RotatorCall(after, marked) ==
    /\ rot_ops < MaxRotOps
    /\ rot_ops' = rot_ops + 1
    /\ rotator' = after
    /\ rot_disabled_at' = DisabledAtAfter(marked, after, rot_now)
    /\ rot_restored' = RestoredAfter(rotator, after, rot_now)
    /\ rot_rotated_at' = IF marked # None THEN rot_now ELSE rot_rotated_at
    /\ UNCHANGED <<use_rotation, rot_now, pfc_pc, pfc_chunks, pfc_i,
                   all_distilled_data, pfc_output, pfc_calls, notPfcRot>>

\* rotator.mark_success()
CallMarkSuccess == RotatorCall(MarkSuccess(rotator, rot_now), None)

\* rotator.mark_quota_exceeded(), which returns the next key or raises
CallMarkQuotaExceeded ==
    RotatorCall(MarkQuotaExceeded(rotator, rot_now).rot, rotator.current_index)

\* rotator.mark_error(), which rotates at the third error of the key
CallMarkError ==
    RotatorCall(MarkError(rotator, rot_now).rot,
                IF rotator.key_status[rotator.current_index].error_count + 1
                        >= RotatorErrorLimit
                THEN rotator.current_index ELSE None)

\* time passes between two calls
ClockTick ==
    /\ rot_now + TickMinutes <= MaxRotTime
    /\ rot_now' = rot_now + TickMinutes
    /\ UNCHANGED <<use_rotation, rotator, pfc_pc, pfc_chunks, pfc_i,
                   all_distilled_data, pfc_output, pfc_calls, rotVars,
                   notPfcRot>>

\* APIKeyRotator(api_keys) just constructed
InitRotator ==
    /\ PoolStart(0)
    /\ GenIdle
    /\ DistIdle
    /\ WfIdle
    /\ ChunkIdle
    /\ DirIdle
    /\ DdIdle
    /\ ConcIdle
    /\ ParseIdle
    /\ OcrIdle
    /\ CkIdle
    /\ use_rotation = TRUE
    /\ rotator \in {NewRotator(n) : n \in 1 .. MaxDriverKeys}
    /\ rot_now = 0
    /\ pfc_pc = "none"
    /\ pfc_chunks = 0
    /\ pfc_i = 0
    /\ all_distilled_data = <<>>
    /\ pfc_output = <<>>
    /\ pfc_calls = <<>>
    /\ rot_ops = 0
    /\ rot_disabled_at = [k \in DOMAIN rotator.key_status |-> None]
    /\ rot_restored = {}
    /\ rot_rotated_at = None

NextRotator ==
    \/ CallMarkSuccess
    \/ CallMarkQuotaExceeded
    \/ CallMarkError
    \/ ClockTick

SpecRotator == InitRotator /\ [][NextRotator]_vars

\* ------------------------------------------------------------------------
\* the pages a to b - 1, in order
RECURSIVE PageRange(_, _)
PageRange(a, b) == IF a >= b THEN <<>> ELSE <<a>> \o PageRange(a + 1, b)

\* A mutant of ResumeStartPage: the run starts again at the last page done
ResumeStartPageAgain(last) == last
\* start_page = checkpoint.get('last_processed_page', 0) + 1
ResumeStartPage(last) == last + 1

\* batch_end = min(batch_start + self.batch_size, total_pages)
BatchEnd(b) == Min({b + batch_size, total_pages})

\* the for loop goes on: to the next batch, or past the loop
OcrAdvance(next) ==
    IF next < total_pages
    THEN batch_start' = next /\ ocr_pc' = "batch"
    ELSE batch_start' = batch_start /\ ocr_pc' = "join"

\* _process_pdf(file_path, resume, start_page) is called: the checkpoint is
\* looked at and the loop entered
ProcessPdf(resume_arg) ==
    /\ ocr_pc \in {"ready", "returned", "raised", "crashed"}
    /\ ocr_runs < MaxOcrRuns
    /\ ocr_runs' = ocr_runs + 1
    /\ LET load == resume_arg /\ ocr_checkpoint.exists
           first == IF load THEN ResumeStartPage(ocr_checkpoint.last_processed_page)
                            ELSE default_start_page IN
       /\ start_page' = first
       /\ ocr_loaded' = [loaded |-> load,
                         last |-> IF load THEN ocr_checkpoint.last_processed_page
                                          ELSE 0]
       \* range(start_page, total_pages, batch_size) starts at start_page
       /\ OcrAdvance(first)
    /\ all_content' = <<>>
    /\ ocr_content' = <<>>
    /\ ocr_pages' = {}
    /\ UNCHANGED <<total_pages, batch_size, ocr_checkpoint, notOcr>>

\* One iteration of the loop: _ocr_pdf_batch on the pages batch_start to
\* batch_end - 1 and the checkpoint after it, or the except branch
OcrPdfBatch(ok) ==
    /\ ocr_pc = "batch"
    /\ ocr_pages' = ocr_pages \cup {p \in 0 .. total_pages - 1 :
                                        batch_start <= p /\ p < BatchEnd(batch_start)}
    /\ IF ok
       THEN /\ all_content' = all_content \o PageRange(batch_start, BatchEnd(batch_start))
            /\ ocr_checkpoint' = [exists |-> TRUE,
                                  last_processed_page |-> BatchEnd(batch_start) - 1,
                                  error |-> FALSE]
            /\ OcrAdvance(batch_start + batch_size)
       ELSE /\ ocr_checkpoint' = [exists |-> TRUE,
                                  last_processed_page |-> batch_start - 1,
                                  error |-> TRUE]
            /\ ocr_pc' = "raised"
            /\ UNCHANGED <<all_content, batch_start>>
    /\ UNCHANGED <<total_pages, batch_size, start_page, ocr_content, ocr_runs,
                   ocr_loaded, notOcr>>

\* After the loop: content = '\n\n'.join(all_content), the checkpoint file
\* is removed and the result returned
JoinAndReturn ==
    /\ ocr_pc = "join"
    /\ ocr_content' = all_content
    /\ ocr_checkpoint' = NoOcrCheckpoint
    /\ ocr_pc' = "returned"
    /\ UNCHANGED <<total_pages, batch_size, start_page, batch_start, all_content,
                   ocr_runs, ocr_loaded, ocr_pages, notOcr>>

\* the process is killed inside _process_pdf
CrashOcr ==
    /\ ocr_pc \in {"batch", "join"}
    /\ ocr_pc' = "crashed"
    /\ UNCHANGED <<total_pages, batch_size, ocr_checkpoint, start_page, batch_start,
                   all_content, ocr_content, ocr_runs, ocr_loaded, ocr_pages, notOcr>>

\* A scanned PDF of 1 to MaxPages pages and no checkpoint
InitOcr ==
    /\ RotIdle
    /\ CkIdle
    /\ PoolStart(0)
    /\ GenIdle
    /\ DistIdle
    /\ WfIdle
    /\ ChunkIdle
    /\ DirIdle
    /\ DdIdle
    /\ PfcIdle
    /\ ConcIdle
    /\ ParseIdle
    /\ ocr_pc = "ready"
    /\ total_pages \in 1 .. MaxPages
    /\ batch_size \in 1 .. MaxBatchSize
    /\ ocr_checkpoint = NoOcrCheckpoint
    /\ start_page = 0
    /\ batch_start = 0
    /\ all_content = <<>>
    /\ ocr_content = <<>>
    /\ ocr_runs = 0
    /\ ocr_loaded = [loaded |-> FALSE, last |-> 0]
    /\ ocr_pages = {}

NextOcr ==
    \/ \E r \in BOOLEAN : ProcessPdf(r)
    \/ \E ok \in BOOLEAN : OcrPdfBatch(ok)
    \/ JoinAndReturn
    \/ CrashOcr

SpecOcr == InitOcr /\ [][NextOcr]_vars

\* ------------------------------------------------------------------------
\* Claims about the credential pool (checked under SpecPool)
\* ------------------------------------------------------------------------
\* The credential c is in its cooldown period
InCooldown(c) ==
    api_stats[c].cooldown_until # None /\ now < api_stats[c].cooldown_until
\* The credential c is disabled
Disabled(c) == ~api_stats[c].is_active
\* This step is a call of get_available_api
IsGetStep == lastGet'.flip # lastGet.flip

\* C6: round-robin fairness. Of K consecutive get_available_api calls with
\* no report_failure in between (report_success and the passing of time are
\* allowed), the first made when all K credentials of the provider are
\* available, each credential is returned by exactly one.
C6_RoundRobinFair ==
    (numApis > 0 /\ Len(recent) = numApis /\ recent[1].allAvail)
        => /\ {recent[k].api : k \in 1 .. numApis} = Apis
           /\ \A j, k \in 1 .. numApis : recent[j].api = recent[k].api => j = k

\* C6, witness: two or more credentials, a full window of K calls that began
\* with every credential available, at a state reached after time has passed
\* and the rotation index has moved on
C6_Witness ==
    /\ numApis >= 2
    /\ Len(recent) = numApis
    /\ recent[1].allAvail
    /\ recent[1].api # 0
    /\ now > 0

\* C7: cooldown correctness. A credential whose consecutive failures reach
\* failure_threshold is unavailable from that step on; no step other than
\* the clock reaching cooldown_until ends its cooldown, whatever
\* report_success / report_failure calls arrive; and when the pool clears the
\* cooldown (on handing the credential out again) the clock has reached
\* cooldown_until and the consecutive-failure counter is zero.
C7_CooldownCorrect ==
    [][\A c \in Apis :
        /\ (api_stats[c].consecutive_failures < failure_threshold
              /\ api_stats'[c].consecutive_failures >= failure_threshold)
            => InCooldown(c)'
        /\ (InCooldown(c) /\ ~InCooldown(c)')
            => /\ now' > now
               /\ api_stats'[c].cooldown_until = api_stats[c].cooldown_until
               /\ now' >= api_stats[c].cooldown_until
        /\ (api_stats[c].cooldown_until # None /\ api_stats'[c].cooldown_until = None)
            => /\ now >= api_stats[c].cooldown_until
               /\ api_stats'[c].consecutive_failures = 0
        /\ (IsGetStep /\ lastGet'.ret = c)
            => api_stats'[c].cooldown_until = None
      ]_vars

\* C7, witness: a credential that was put into cooldown has been handed out
\* again after the cooldown, with its counter back at zero
C7_Witness ==
    /\ lastGet.wasCooling
    /\ lastGet.ret # None
    /\ api_stats[lastGet.ret].consecutive_failures = 0
    /\ api_stats[lastGet.ret].cooldown_until = None
    /\ now >= cooldown_minutes

\* C8: get_available_api never returns a credential that is in cooldown or
\* disabled, returns an available credential of the provider whenever there
\* is one, and returns None exactly when there is none (with credentials A
\* and B, A in cooldown and B available, it returns B).
C8_AcquireOnlyAvailable ==
    [][IsGetStep =>
        /\ lastGet'.ret # None
            => /\ lastGet'.ret \in Apis
               /\ ~InCooldown(lastGet'.ret)
               /\ ~Disabled(lastGet'.ret)
        /\ lastGet'.ret = None
            <=> \A c \in Apis : InCooldown(c) \/ Disabled(c)
      ]_vars

\* C8, witness: two credentials, A (index 0) failed failure_threshold times
\* in a row and is in cooldown, and the call just made returned B (index 1)
C8_Witness ==
    /\ numApis = 2
    /\ api_stats[0].consecutive_failures >= failure_threshold
    /\ InCooldown(0)
    /\ lastGet.ret = 1
    /\ current_index = 0

C8_WitnessNone ==
    /\ numApis = 2
    /\ lastGet.flip
    /\ lastGet.ret = None
    /\ InCooldown(0) /\ InCooldown(1)

\* ------------------------------------------------------------------------
\* Claims about _generate_qa_pairs (checked under SpecRetry)
\* ------------------------------------------------------------------------
\* The attempts of the current call that reached the LLM
LlmCalls == {k \in 1 .. Len(tries) : tries[k].api # None}

\* C9: one _generate_qa_pairs call makes at most max_retries attempts (and
\* LLM calls), returns at the first attempt that succeeds, and raises exactly
\* when max_retries attempts have failed; the credential of a failed attempt
\* is reported failed; and a retry made when the provider has two or more
\* available credentials uses another credential than the attempt that just
\* failed.
C9_BoundedRetry ==
    /\ Len(tries) <= max_retries
    /\ Cardinality(LlmCalls) <= max_retries
    /\ \A k \in 1 .. Len(tries) : tries[k].ok => k = Len(tries)
    /\ gen_pc = "returned" => (Len(tries) > 0 /\ tries[Len(tries)].ok)
    /\ gen_pc = "attempt" => Len(tries) < max_retries
    /\ gen_pc = "raised"
        <=> (Len(tries) = max_retries /\ \A k \in 1 .. Len(tries) : ~tries[k].ok)
    /\ \A k \in 1 .. Len(tries) :
        (~tries[k].ok /\ tries[k].api # None) => tries[k].reported = tries[k].api
    /\ \A k \in 2 .. Len(tries) :
        (tries[k].avail >= 2 /\ tries[k - 1].api # None)
            => (tries[k].api # None /\ tries[k].api # tries[k - 1].api)

\* C9, witness: the first attempt failed on one credential, the retry was
\* made with two credentials available, used the other one and succeeded
C9_Witness ==
    /\ gen_pc = "returned"
    /\ Len(tries) = 2
    /\ ~tries[1].ok /\ tries[1].api # None
    /\ tries[2].ok /\ tries[2].avail >= 2
    /\ tries[2].api # tries[1].api

C9_WitnessRaised ==
    /\ gen_pc = "raised"
    /\ Cardinality(LlmCalls) = max_retries

\* C19: every attempt of _generate_qa_pairs ends with one report to the
\* pool for the credential acquired in that attempt, report_success when the
\* attempt succeeded and report_failure otherwise, and an attempt that
\* acquired no credential reports nothing.
C19_ReportForAcquiredOnly ==
    \A k \in 1 .. Len(tries) :
        /\ tries[k].ok => tries[k].api # None
        /\ ~tries[k].ok => tries[k].reported = tries[k].api

\* C22: an attempt whose response cannot be parsed counts as a failure: the
\* credential gets report_failure, not report_success, and while attempts
\* are left the chunk is tried again.
C22_UnparsableIsFailure ==
    \A k \in 1 .. Len(tries) :
        tries[k].out = "unparsable" =>
            /\ ~tries[k].ok
            /\ tries[k].reported = tries[k].api
            /\ (k = Len(tries) /\ k < max_retries) => gen_pc = "attempt"

\* ------------------------------------------------------------------------
\* Claims about DataDistillerSkill.execute (checked under SpecDistill)
\* ------------------------------------------------------------------------
\* The chunks that yield no pairs: _generate_qa_pairs raises or returns []
FailingChunks == {c \in Chunks : kind[c] # "pairs"}

\* The batches an uninterrupted run that completes appends
UninterruptedBatches == Cardinality(Chunks \ FailingChunks)

\* An uninterrupted run completes: at no failing chunk has more than 30% of
\* the document failed
UninterruptedCompletes ==
    \A c \in Chunks :
        kind[c] = "error"
            => 10 * Cardinality({d \in FailingChunks : d <= c}) <= 3 * numChunks

\* No chunk's pairs are in the output file twice
NoDuplicateBatch ==
    \A j, k \in 1 .. Len(output_file) : output_file[j] = output_file[k] => j = k

\* C1: whatever the crash points, when every restart passes resume=True no
\* chunk whose pairs are already in the output file is sent to the LLM again,
\* and no chunk's pairs are appended twice.
C1_NoRedistillAfterCrash ==
    resumeAll => (resent = {} /\ NoDuplicateBatch)

\* C2: resume idempotence. A run that resumes (resume=True, the first restart
\* of the document) from a checkpoint showing last_processed_chunk = k appends
\* no pairs for the chunks 0..k, and when it is done the output file holds as
\* many pairs as an uninterrupted run writes (the LLM service being
\* deterministic).
C2_ResumeIdempotent ==
    (runs = 2 /\ resumeAll /\ ckptAtStart.loaded /\ UninterruptedCompletes)
        => /\ \A c \in runAppended : c > ckptAtStart.last
           /\ ex_pc = "done"
                => Len(output_file) * qa_per_chunk
                     = UninterruptedBatches * qa_per_chunk

\* C4: the document is aborted exactly when more than 30% of its chunks are
\* recorded as failed: an aborted run has that many failed chunks and leaves
\* its checkpoint in place, and a run that returns normally has not.
C4_AbortIffOverThreshold ==
    /\ ex_pc = "aborted"
         => (10 * failed_chunks > 3 * numChunks /\ checkpoint.exists)
    /\ ex_pc = "done" => ~(10 * failed_chunks > 3 * numChunks)

\* C5: an uninterrupted run on a document in which at most 30% of the chunks
\* fail is never aborted, and when it is done the output file holds the
\* batch of every non-failing chunk, once each and in chunk order, the
\* returned count is theirs, and the checkpoint is gone.
C5_DoneBelowThreshold ==
    (runs = 1 /\ 10 * Cardinality(FailingChunks) <= 3 * numChunks)
        => /\ ex_pc # "aborted"
           /\ ex_pc = "done"
                => /\ Appended = Chunks \ FailingChunks
                   /\ Len(output_file) = UninterruptedBatches
                   /\ \A j, k \in 1 .. Len(output_file) :
                        j < k => output_file[j] < output_file[k]
                   /\ total_qa_pairs = qa_per_chunk * UninterruptedBatches
                   /\ failed_chunks = Cardinality(FailingChunks)
                   /\ ~checkpoint.exists

\* C5, witness: a four-chunk document, one chunk failing after its retries
\* (25%), run to the end without interruption
C5_Witness ==
    /\ runs = 1
    /\ ex_pc = "done"
    /\ numChunks = 4
    /\ kind[1] = "error"
    /\ Cardinality(FailingChunks) = 1
    /\ Len(output_file) = 3

\* C15: at every point of a run, and so after an interrupt at any point, the
\* checkpoint's last_processed_chunk names no chunk whose handling has not
\* finished (its pairs appended, or the chunk counted as failed): it is -1
\* or the index of a finished chunk, hence at most the last finished one.
C15_CheckpointNotAhead ==
    checkpoint.exists =>
        \/ checkpoint.last_processed_chunk = -1
        \/ checkpoint.last_processed_chunk \in finished

\* C15, witness: the process was killed after the pairs of chunk 2 were
\* appended and before its checkpoint was written; the checkpoint names
\* chunk 1
C15_Witness ==
    /\ ex_pc = "crashed"
    /\ checkpoint.exists
    /\ checkpoint.last_processed_chunk = 1
    /\ 2 \in Appended
    /\ finished = {0, 1, 2}

\* C16: after chunk i is finished, its pairs appended or the chunk given up
\* after its retries, the checkpoint is rewritten and records i: whenever
\* the loop is about to take the next chunk, the checkpoint names the chunk
\* just handled.
C16_CheckpointRecordsFinished ==
    (ex_pc = "loop" /\ chunk_i > start_chunk) =>
        /\ checkpoint.exists
        /\ checkpoint.last_processed_chunk = chunk_i - 1

\* ------------------------------------------------------------------------
\* Claims about WorkflowManager.process_file (checked under SpecWorkflow)
\* ------------------------------------------------------------------------
\* C3: when process_file returns success, on a fresh run or on one resumed
\* from a checkpoint, no checkpoint of the document remains; when it ends in
\* failure (a failed result, or an exception) the checkpoint is present.
C3_CheckpointLifecycle ==
    /\ (wf_pc = "returned" /\ wf_result.success) => ~wf_checkpoint.exists
    /\ (wf_pc = "returned" /\ ~wf_result.success) => wf_checkpoint.exists
    /\ wf_pc = "raised" => wf_checkpoint.exists

\* the step after a step of the workflow
StepAfter(step) ==
    CASE step = "routing" -> "parsing"
      [] step = "parsing" -> "chunking"
      [] OTHER -> "done"

\* A step taken while process_file executes its workflow: the executing
\* step is the recorded step, and the step advances the record to the next
\* one of routing, parsing, chunking (after chunking the run returns
\* success and the record is gone); or it fails, and the run returns at once
\* a failed result and an error record that both name the step that was
\* executing; or the process is killed
WorkflowStepInOrder ==
    wf_pc \in {"routing", "parsing", "chunking"} =>
        /\ wf_current_step = wf_pc
        /\ wf_checkpoint.exists /\ wf_checkpoint.current_step = wf_pc
        /\ \/ wf_pc' = "crashed"
           \/ /\ wf_pc # "chunking"
              /\ wf_pc' = StepAfter(wf_pc)
              /\ wf_current_step' = wf_pc'
              /\ wf_checkpoint'.exists
              /\ wf_checkpoint'.current_step = wf_pc'
              /\ ~wf_checkpoint'.error
              /\ wf_result' = wf_result
           \/ /\ wf_pc = "chunking"
              /\ wf_pc' = "returned"
              /\ wf_result'.success
              /\ ~wf_checkpoint'.exists
           \/ /\ wf_pc' = "returned"
              /\ ~wf_result'.success
              /\ wf_result'.current_step = wf_pc
              /\ wf_checkpoint'.exists /\ wf_checkpoint'.error
              /\ wf_checkpoint'.current_step = wf_pc

C29_ProcessFileNeverRaises == wf_pc # "raised"

\* ------------------------------------------------------------------------
\* Claims about the chunkers (checked under SpecChunk)
\* ------------------------------------------------------------------------
\* C10: for a text shorter than chunk_size, split_text_into_chunks and
\* SmartChunkerSkill under each strategy return exactly one chunk, and that
\* chunk is the input text.
C10_ShortTextOneChunk ==
    (ch_pc = "done" /\ Len(text) < chunk_size) =>
        /\ Len(out_chunks) = 1
        /\ out_chunks[1].text = text

\* C11: in every chunk sequence produced by split_text_into_chunks or by
\* _smart_chunk, each chunk after the first starts overlap characters before
\* the end of the chunk before it, except where the chunk before it already
\* reached the end of the text.
C11_ConsecutiveOverlap ==
    (ch_pc = "done" /\ strategy \in {"split_text_into_chunks", "smart"}) =>
        \A i \in 1 .. Len(out_chunks) - 1 :
            out_chunks[i].end_pos < Len(text) =>
                out_chunks[i + 1].start_pos = out_chunks[i].end_pos - overlap

\* C12: a text of 1200 characters split by split_text_into_chunks with
\* chunk_size 1000 and overlap 100 gives exactly 2 chunks, wherever its
\* delimiter lies: chunk 0 starts at 0 and ends within the search window of
\* 1000, chunk 1 starts 100 characters before the end of chunk 0 and runs to
\* the end of the text.
C12_ScenarioTwoChunks ==
    (/\ ch_pc = "done"
     /\ strategy = "split_text_into_chunks"
     /\ Len(text) = ScenarioLen
     /\ chunk_size = ScenarioChunkSize
     /\ overlap = ScenarioOverlap) =>
        /\ Len(out_chunks) = 2
        /\ out_chunks[1].start_pos = 0
        /\ out_chunks[1].end_pos >= ScenarioChunkSize - SearchWindow
        /\ out_chunks[1].end_pos <= ScenarioChunkSize + SearchWindow
        /\ out_chunks[2].start_pos = out_chunks[1].end_pos - ScenarioOverlap
        /\ out_chunks[2].end_pos >= Len(text)

\* C27: for 0 <= overlap < chunk_size, split_text_into_chunks and the
\* fixed-length strategy terminate, and each chunk they emit starts
\* strictly after the start of the chunk before it: while the loop runs the
\* start offset lies beyond the start of the last chunk emitted, so that
\* the loop leaves the text after at most Len(text) iterations.
C27_ChunkStartsIncrease ==
    (strategy \in {"split_text_into_chunks", "fixed"} /\ overlap < chunk_size) =>
        /\ \A k \in 1 .. Len(out_chunks) - 1 :
               out_chunks[k + 1].start_pos > out_chunks[k].start_pos
        /\ (ch_pc \in {"split_loop", "fixed_loop"} /\ out_chunks # <<>>) =>
               ch_start > out_chunks[Len(out_chunks)].start_pos

\* ------------------------------------------------------------------------
\* Claims about process_directory (checked under SpecDirectory)
\* ------------------------------------------------------------------------
FilesDone == 1 .. Len(pd_outcomes)

\* C13 (as stated): every file is processed even when some fail or raise,
\* success_count + error_count = total_files = len(results), and a file is
\* counted as succeeded if and only if its process_file result has
\* success = true.
C13_CountedIffResultSuccess ==
    pd_pc = "done" =>
        /\ Len(pd_outcomes) = total_files
        /\ success_count + error_count = total_files
        /\ Len(pd_results) = total_files
        /\ \A f \in FilesDone :
                pd_counted[f] = "success" <=> pd_outcomes[f].result = "success"

\* C13 (amended): every file is processed even when some fail or raise,
\* success_count + error_count = total_files = len(results), the counters
\* count the files added to them, and a file is counted as succeeded if and
\* only if its process_file result has success = true and its chunks were
\* saved.
C13_CountedIffSuccessAndSaved ==
    pd_pc = "done" =>
        /\ Len(pd_outcomes) = total_files
        /\ success_count + error_count = total_files
        /\ Len(pd_results) = total_files
        /\ success_count = Cardinality({f \in FilesDone : pd_counted[f] = "success"})
        /\ \A f \in FilesDone :
                /\ pd_counted[f] = "success" <=>
                        (pd_outcomes[f].result = "success" /\ pd_outcomes[f].saved)
                /\ pd_results[f].success <=> pd_counted[f] = "success"

\* a directory of three files is done: process_file raised on one, and
\* succeeded on two, of which one had its chunks saved and one did not
C13_Witness ==
    /\ pd_pc = "done"
    /\ total_files = 3
    /\ \E f, g, h \in FilesDone :
            /\ pd_outcomes[f].result = "raised"
            /\ pd_outcomes[g].result = "success" /\ ~pd_outcomes[g].saved
            /\ pd_outcomes[h].result = "success" /\ pd_outcomes[h].saved
    /\ success_count = 1
    /\ error_count = 2

\* ------------------------------------------------------------------------
\* Claims about DataDistiller (checked under SpecDataDistiller)
\* ------------------------------------------------------------------------
\* C14: a DataDistiller constructed with only a single api_key (the other
\* arguments at their defaults, no key configured in the environment) is
\* usable: its construction does not raise, and a process_file that returns
\* has called extract_text, distill_with_gemini and save_as_jsonl once each,
\* in that order, and returns the path save_as_jsonl returned.
C14_SingleKeyUsable ==
    (/\ dd_args = [api_key |-> TRUE, api_keys |-> 0, use_rotation |-> TRUE]
     /\ env_keys = 0) =>
        /\ dd_pc # "init_raised"
        /\ dd_pc = "returned" =>
                /\ dd_calls = <<"extract_text", "distill_with_gemini",
                                "save_as_jsonl">>
                /\ dd_result = "saved_path"

\* ------------------------------------------------------------------------
\* Claims about process_file_chunked and the key rotator (checked under
\* SpecChunked)
\* ------------------------------------------------------------------------
\* C17: the chunks of one document are distilled one at a time in index
\* order, and the pairs of chunk i are in the output file before the LLM
\* call for chunk i+1 begins: once a call for a chunk has been made, the
\* pairs of every earlier chunk that were produced are in the file, none of
\* them only in memory.
C17_AppendedBeforeNextCall ==
    /\ \A k \in 1 .. Len(pfc_calls) - 1 : pfc_calls[k].chunk <= pfc_calls[k + 1].chunk
    /\ \A k \in 1 .. Len(pfc_calls) :
           \A j \in 1 .. Len(all_distilled_data) :
               all_distilled_data[j] < pfc_calls[k].chunk =>
                   \E m \in 1 .. Len(pfc_output) :
                       pfc_output[m] = all_distilled_data[j]

\* the generate_content calls made for chunk c
GeminiCallsFor(c) ==
    {k \in 1 .. Len(pfc_calls) :
        pfc_calls[k].chunk = c /\ pfc_calls[k].provider = "gemini"}

\* C20: when a call fails with a quota error, the key used is unavailable
\* at once whatever its error count, the retry of the chunk is made with
\* another key that is available, and a chunk is retried at most
\* max_retries times.
C20_QuotaRetryBounded ==
    /\ \A k \in 1 .. Len(pfc_calls) :
           (use_rotation /\ pfc_calls[k].outcome = "quota") =>
               /\ ~pfc_calls[k].after.is_available
               /\ (k + 1 \in GeminiCallsFor(pfc_calls[k].chunk)) =>
                      /\ pfc_calls[k + 1].key # pfc_calls[k].key
                      /\ pfc_calls[k + 1].before.is_available
    /\ \A c \in 1 .. pfc_chunks :
           Cardinality(GeminiCallsFor(c)) <= 1 + max_retries

\* ------------------------------------------------------------------------
\* Claims about the pool shared by workers (checked under SpecConcurrent)
\* ------------------------------------------------------------------------
\* C18: concurrent calls of the pool take effect as if executed one at a
\* time, and no update is lost. Once every call has returned, a credential
\* on which only failures were reported has as many consecutive failures as
\* report_failure calls were made on it, and while every credential is
\* available the round-robin index has advanced once for each credential
\* handed out.
C18_NoLostUpdate ==
    (\A w \in Workers : w_pc[w] = "idle") =>
        /\ \A c \in Apis :
               c \notin success_called =>
                   api_stats[c].consecutive_failures = failures_done[c]
        /\ AvailableSet(api_stats, numApis, now) = Apis =>
               current_index = gets_done % numApis

\* C21: a generate_content call that fails with a context-too-long error
\* leaves the status of the key it used as it was, is not followed by
\* another generate_content call for the same chunk, and is followed by
\* exactly one distill_with_zhipu call for that chunk; when that call fails
\* too the chunk contributes no pairs and the loop goes on to the next chunk.
C21_ContextTooLongEscalates ==
    \A k \in 1 .. Len(pfc_calls) :
        LET call == pfc_calls[k] IN
        /\ (call.provider = "gemini" /\ call.outcome = "context") =>
               /\ call.after = call.before
               /\ IF k = Len(pfc_calls)
                  THEN pfc_pc = "zhipu" /\ pfc_i = call.chunk
                  ELSE /\ pfc_calls[k + 1].provider = "zhipu"
                       /\ pfc_calls[k + 1].chunk = call.chunk
        /\ call.provider = "zhipu" =>
               /\ k > 1
               /\ pfc_calls[k - 1].provider = "gemini"
               /\ pfc_calls[k - 1].outcome = "context"
               /\ pfc_calls[k - 1].chunk = call.chunk
               /\ \A j \in k + 1 .. Len(pfc_calls) : pfc_calls[j].chunk > call.chunk
               /\ k = Len(pfc_calls) =>
                      /\ pfc_pc # "zhipu"
                      /\ pfc_pc = "distill" => pfc_i = call.chunk + 1
               /\ (call.outcome = "error") =>
                      \A j \in 1 .. Len(all_distilled_data) :
                          all_distilled_data[j] # call.chunk

\* C21, witness: with rotation, chunk 1 failed with a context-too-long
\* error, distill_with_zhipu failed too, and the call for chunk 2 was made
C21_Witness ==
    /\ use_rotation
    /\ Len(pfc_calls) >= 3
    /\ pfc_calls[1].provider = "gemini" /\ pfc_calls[1].outcome = "context"
    /\ pfc_calls[2].provider = "zhipu" /\ pfc_calls[2].outcome = "error"
    /\ pfc_calls[3].provider = "gemini" /\ pfc_calls[3].chunk = 2

\* ------------------------------------------------------------------------
\* Claims about _parse_response (checked under SpecParse)
\* ------------------------------------------------------------------------
\* C23: every pair appended to the output file has a question and an answer
\* that are trimmed and not empty; elements that do not satisfy this are
\* left out.
C23_PairsTrimmedNonEmpty ==
    \A k \in 1 .. Len(written_lines) :
        /\ written_lines[k].question = Strip(written_lines[k].question)
        /\ written_lines[k].answer = Strip(written_lines[k].answer)
        /\ written_lines[k].question # <<>>
        /\ written_lines[k].answer # <<>>

C28_ResumedTextComplete ==
    ocr_pc = "returned" => ocr_content = PageRange(0, total_pages)

\* ------------------------------------------------------------------------
\* Claims about the checkpoint directory (checked under SpecCheckpoints)
\* ------------------------------------------------------------------------
\* C26: two different source documents never share a checkpoint record: a
\* checkpoint loaded while a document is processed was written for that
\* document, and a checkpoint file written over while a document is
\* processed held a record of that document.
C26_CheckpointsNotShared ==
    /\ \A l \in ck_loaded : l.of = l.by
    /\ \A o \in ck_overwritten : o.of = o.by

\* ------------------------------------------------------------------------
\* Claims about the key rotator (checked under SpecRotator)
\* ------------------------------------------------------------------------
\* C30: a key the rotator has made unavailable becomes available again at
\* the first rotation after cooldown_minutes have passed since it was
\* disabled, and not before: no key was restored less than cooldown_minutes
\* after it was disabled, and no key is still unavailable after a rotation
\* that came cooldown_minutes or more after it was disabled.
C30_RestoredAfterCooldown ==
    /\ \A r \in rot_restored : r.at - r.disabled_at >= rotator_cooldown_minutes
    /\ \A k \in DOMAIN rot_disabled_at :
           (rot_disabled_at[k] # None /\ rot_rotated_at # None) =>
               rot_rotated_at - rot_disabled_at[k] < rotator_cooldown_minutes

====
